---- MODULE Spec2Model ----
(***************************************************************************)
(* Model of the fetch-cache-compute pipeline of stock_index_info:          *)
(*   db.py            the SQLite store (income_statements, balance_sheets, *)
(*                    constituents) seen through one connection            *)
(*   exchange_rate.py the process-wide exchange-rate cache                 *)
(*   alpha_vantage.py the income adapter, the market-cap chain, the 7-year *)
(*                    P/E calculator and its orchestrator get_7year_pe     *)
(*   balance_sheet.py the balance-sheet adapter, the asset valuation and   *)
(*                    its orchestrator get_asset_valuation                 *)
(*                                                                         *)
(* Python strings are sequences of code points, so that str.upper() and    *)
(* the lexicographic comparison of ISO dates are computed, not assumed.    *)
(* Python floats are integers in model units; the payloads are chosen so   *)
(* that every division the code performs on them is exact.                 *)
(* An Optional value is a sequence of length at most one: None is << >>.   *)
(***************************************************************************)
EXTENDS Integers, Sequences, FiniteSets, TLC

VARIABLES
    income,        \* rows of income_statements as the connection sees them
    balance,       \* rows of balance_sheets as the connection sees them
    constituents,  \* rows of constituents as the connection sees them (in id order)
    durable,       \* the three tables as of the last commit
    api_key,       \* whether config.ALPHA_VANTAGE_API_KEY is set (fixed at import)
    ratesCache,    \* exchange_rate._exchange_rates_cache (Optional)
    now,           \* the clock read by time.time() and date.today(), in seconds
    refresh,       \* two callers of get_7year_pe, each on a connection of its own
    fetching,      \* an adapter call inside its loop over the annual reports
    last           \* the last call: its arguments, what it invoked, its outcome

vars ==
    <<income, balance, constituents, durable, api_key, ratesCache, now, refresh, fetching,
      last>>

----------------------------------------------------------------------------
(* Optional values *)

None == << >>

Some(x) == <<x>>

IsNone(o) == o = << >>

Get(o) == o[1]

----------------------------------------------------------------------------
(* Strings as sequences of code points *)

\* str.upper() on ASCII text: 'a'..'z' (97..122) move to 'A'..'Z'
UpperChar(c) == IF c \in 97..122 THEN c - 32 ELSE c

Upper(s) == [i \in 1..Len(s) |-> UpperChar(s[i])]

\* Python's s > t on str: lexicographic by code point, a proper prefix is smaller
RECURSIVE StrGreater(_, _)
StrGreater(s, t) ==
    IF s = << >> THEN FALSE
    ELSE IF t = << >> THEN TRUE
    ELSE IF Head(s) # Head(t) THEN Head(s) > Head(t)
    ELSE StrGreater(Tail(s), Tail(t))

\* s[:n]
Prefix(s, n) == SubSeq(s, 1, IF Len(s) < n THEN Len(s) ELSE n)

\* '0'..'9' are 48..57
IsDigit(c) == c \in 48..57

Digit(n) == 48 + n

\* int(s) for a string of decimal digits; Python raises ValueError for the
\* empty string and for any other character of the payloads used here
CanParseInt(s) == Len(s) > 0 /\ \A i \in 1..Len(s) : IsDigit(s[i])

RECURSIVE ParseInt(_)
ParseInt(s) ==
    IF s = << >> THEN 0
    ELSE 10 * ParseInt(SubSeq(s, 1, Len(s) - 1)) + (s[Len(s)] - 48)

\* float(s) for an optionally signed string of digits ('-' is 45)
CanParseFloat(s) ==
    IF Len(s) > 0 /\ s[1] = 45 THEN CanParseInt(Tail(s)) ELSE CanParseInt(s)

ParseFloat(s) == IF s[1] = 45 THEN 0 - ParseInt(Tail(s)) ELSE ParseInt(s)

\* date.isoformat(): YYYY-MM-DD
IsoFormat(y, m, d) ==
    << Digit(y \div 1000), Digit((y \div 100) % 10), Digit((y \div 10) % 10), Digit(y % 10),
       45, Digit(m \div 10), Digit(m % 10), 45, Digit(d \div 10), Digit(d % 10) >>

\* String literals used by the code and the payloads
sUSD == <<85, 83, 68>>

sDKK == <<68, 75, 75>>

sEUR == <<69, 85, 82>>

sNoneWord == <<78, 111, 110, 101>>

sEmpty == << >>

----------------------------------------------------------------------------
(* The clock.  time.time() is `now` seconds after 2024-12-30T00:00:00 local  *)
(* time; date.today() is the calendar day of `now`.                         *)

SecondsPerDay == 24 * 60 * 60

\* the calendar from 2024-12-30 on (through January 2025)
DateOfDay(n) ==
    IF n <= 1 THEN IsoFormat(2024, 12, 30 + n) ELSE IsoFormat(2025, 1, n - 1)

Today(t) == DateOfDay(t \div SecondsPerDay)

----------------------------------------------------------------------------
(* db.py: the store.  A table is the set of its rows; the AUTOINCREMENT id   *)
(* is not modelled for the two metric tables (nothing reads it).            *)

\* IncomeRecord / BalanceSheetRecord (models.py)
IncomeRecord(t, fy, ni) == [ticker |-> t, fiscal_year |-> fy, net_income |-> ni]

BalanceSheetRecord(t, fy, ta, tl, tca, gw, ia) ==
    [ticker |-> t, fiscal_year |-> fy, total_assets |-> ta, total_liabilities |-> tl,
     total_current_assets |-> tca, goodwill |-> gw, intangible_assets |-> ia]

\* (a table without its UNIQUE constraint)
UniqueViolationBroken(table, row) == FALSE

\* UNIQUE(ticker, fiscal_year) of income_statements and of balance_sheets:
\* the INSERT of `row` fails with sqlite3.IntegrityError
UniqueViolation(table, row) ==
    \E r \in table : r.ticker = row.ticker /\ r.fiscal_year = row.fiscal_year

\* (a DELETE that removes nothing)
DeleteWhereTickerNoOp(table, t) == table

\* DELETE FROM <table> WHERE ticker = ?
DeleteWhereTicker(table, t) == {r \in table : r.ticker # t}

\* SELECT ... WHERE ticker = ?
SelectWhereTicker(table, t) == {r \in table : r.ticker = t}

\* the row an ORDER BY fiscal_year puts first, ascending and descending
MinFiscalYear(rows) == CHOOSE r \in rows : \A q \in rows : q.fiscal_year >= r.fiscal_year

MaxFiscalYear(rows) == CHOOSE r \in rows : \A q \in rows : q.fiscal_year <= r.fiscal_year

\* (ORDER BY fiscal_year ASC)
RECURSIVE OrderByFiscalYearAsc(_)
OrderByFiscalYearAsc(rows) ==
    IF rows = {} THEN << >>
    ELSE <<MinFiscalYear(rows)>> \o OrderByFiscalYearAsc(rows \ {MinFiscalYear(rows)})

\* ORDER BY fiscal_year DESC
RECURSIVE OrderByFiscalYearDesc(_)
OrderByFiscalYearDesc(rows) ==
    IF rows = {} THEN << >>
    ELSE <<MaxFiscalYear(rows)>> \o OrderByFiscalYearDesc(rows \ {MaxFiscalYear(rows)})

\* The row save_income inserts for one record
IncomeRow(ticker_upper, record, last_updated) ==
    [ticker |-> ticker_upper, fiscal_year |-> record.fiscal_year,
     net_income |-> record.net_income, last_updated |-> last_updated]

BalanceRow(ticker_upper, record, last_updated) ==
    [ticker |-> ticker_upper, fiscal_year |-> record.fiscal_year,
     total_assets |-> record.total_assets, total_liabilities |-> record.total_liabilities,
     total_current_assets |-> record.total_current_assets, goodwill |-> record.goodwill,
     intangible_assets |-> record.intangible_assets, last_updated |-> last_updated]

\* The INSERT loop of save_income from record i on: it stops at the first
\* IntegrityError, which leaves the rows inserted so far in the open transaction
RECURSIVE InsertIncome(_, _, _, _, _)
InsertIncome(table, ticker_upper, records, i, last_updated) ==
    IF i > Len(records) THEN [table |-> table, raised |-> FALSE]
    ELSE IF UniqueViolation(table, IncomeRow(ticker_upper, records[i], last_updated))
    THEN [table |-> table, raised |-> TRUE]
    ELSE InsertIncome(table \cup {IncomeRow(ticker_upper, records[i], last_updated)},
                      ticker_upper, records, i + 1, last_updated)

RECURSIVE InsertBalance(_, _, _, _, _)
InsertBalance(table, ticker_upper, records, i, last_updated) ==
    IF i > Len(records) THEN [table |-> table, raised |-> FALSE]
    ELSE IF UniqueViolation(table, BalanceRow(ticker_upper, records[i], last_updated))
    THEN [table |-> table, raised |-> TRUE]
    ELSE InsertBalance(table \cup {BalanceRow(ticker_upper, records[i], last_updated)},
                       ticker_upper, records, i + 1, last_updated)

\* (save_income without its DELETE)
save_income_without_delete(table, ticker, records, last_updated) ==
    InsertIncome(table, Upper(ticker), records, 1, last_updated)

\* save_income up to, not including, conn.commit(): the table the connection
\* sees afterwards, and whether an INSERT raised (then commit is not reached)
save_income(table, ticker, records, last_updated) ==
    InsertIncome(DeleteWhereTicker(table, Upper(ticker)), Upper(ticker), records, 1,
                 last_updated)

save_balance_sheet(table, ticker, records, last_updated) ==
    InsertBalance(DeleteWhereTicker(table, Upper(ticker)), Upper(ticker), records, 1,
                  last_updated)

\* CachedIncome built from the fetched rows: None when there is none
CachedIncome(ticker_upper, rows) ==
    IF rows = << >> THEN None
    ELSE Some([ticker |-> ticker_upper,
               last_updated |-> rows[1].last_updated,
               annual_income |->
                   [i \in 1..Len(rows) |->
                       IncomeRecord(ticker_upper, rows[i].fiscal_year, rows[i].net_income)]])

\* get_cached_income: Optional CachedIncome
get_cached_income(table, ticker) ==
    CachedIncome(Upper(ticker),
                 OrderByFiscalYearDesc(SelectWhereTicker(table, Upper(ticker))))

CachedBalanceSheet(ticker_upper, rows) ==
    IF rows = << >> THEN None
    ELSE Some([ticker |-> ticker_upper,
               last_updated |-> rows[1].last_updated,
               annual_records |->
                   [i \in 1..Len(rows) |->
                       BalanceSheetRecord(ticker_upper, rows[i].fiscal_year,
                           rows[i].total_assets, rows[i].total_liabilities,
                           rows[i].total_current_assets, rows[i].goodwill,
                           rows[i].intangible_assets)]])

\* get_cached_balance_sheet: Optional CachedBalanceSheet
get_cached_balance_sheet(table, ticker) ==
    CachedBalanceSheet(Upper(ticker),
                       OrderByFiscalYearDesc(SelectWhereTicker(table, Upper(ticker))))

\* insert_constituent's INSERT OR IGNORE under UNIQUE(ticker, index_code,
\* added_date): SQLite treats NULL added dates as distinct from each other, so
\* only a row with the same non-NULL added_date makes the INSERT a no-op.
\* The ticker is stored as the record gives it.
ConstituentRow(record) ==
    [ticker |-> record.ticker, index_code |-> record.index_code,
     added_date |-> record.added_date, removed_date |-> record.removed_date]

insert_constituent(table, record) ==
    LET row == ConstituentRow(record)
    IN  IF \E i \in 1..Len(table) :
               /\ table[i].ticker = row.ticker
               /\ table[i].index_code = row.index_code
               /\ ~IsNone(row.added_date)
               /\ table[i].added_date = row.added_date
        THEN table
        ELSE Append(table, row)

\* get_stock_memberships: the rows of ticker.upper() (ORDER BY added_date is
\* not modelled: the result is used as a set)
get_stock_memberships(table, ticker) ==
    {table[i] : i \in {j \in 1..Len(table) : table[j].ticker = Upper(ticker)}}

\* get_index_constituents without as_of_date: tickers with removed_date IS NULL
get_index_constituents(table, index_code) ==
    {table[i].ticker : i \in {j \in 1..Len(table) :
        table[j].index_code = index_code /\ IsNone(table[j].removed_date)}}

----------------------------------------------------------------------------
(* exchange_rate.py.  A rate table is a dict: a set of <<currency, rate>>    *)
(* pairs with one pair per currency ("1 USD = rate currency").              *)

_CACHE_EXPIRATION_SECONDS == 24 * 60 * 60

\* dict.get(key): Optional rate
DictGet(rates, key) ==
    IF \E p \in rates : p[1] = key
    THEN Some((CHOOSE p \in rates : p[1] = key)[2])
    ELSE None

\* What the rate provider answers to one GET: the request raises (timeout,
\* connection error, non-2xx, bad JSON), or it returns data whose "result" is
\* or is not "success" and whose "rates" is a (possibly empty or missing) dict
FxFailure == [kind |-> "error", success |-> FALSE, rates |-> {}]

FxJson(success, rates) == [kind |-> "json", success |-> success, rates |-> rates]

\* (a cache still usable at exactly the expiration age)
CacheFreshInclusive(cache, t) ==
    ~IsNone(cache) /\ t - Get(cache).timestamp <= _CACHE_EXPIRATION_SECONDS

\* (a cache that never expires)
CacheFreshIgnoringAge(cache, t) == ~IsNone(cache)

\* The cache is usable: present and younger than the expiration window
CacheFresh(cache, t) ==
    ~IsNone(cache) /\ t - Get(cache).timestamp < _CACHE_EXPIRATION_SECONDS

\* get_exchange_rates at time t when the provider would answer fx:
\* the Optional rates returned, the cache afterwards, the requests issued
get_exchange_rates(cache, t, fx) ==
    IF CacheFresh(cache, t)
    THEN [rates |-> Some(Get(cache).rates), cache |-> cache, requests |-> 0]
    ELSE IF fx.kind = "error" \/ ~fx.success \/ fx.rates = {}
    THEN [rates |-> None, cache |-> cache, requests |-> 1]
    ELSE [rates |-> Some(fx.rates),
          cache |-> Some([rates |-> fx.rates, timestamp |-> t]),
          requests |-> 1]

\* The rate provider's answers to the successive requests of one call, in
\* order; the last answer repeats.  FxAnswer is the answer to request k.
FxAnswer(fx, k) == IF k < Len(fx) THEN fx[k] ELSE fx[Len(fx)]

\* (amount * rate for amount / rate)
FloatMul(amount, rate) == amount * rate

\* amount / rate on floats; the payloads keep it exact
FloatDiv(amount, rate) == amount \div rate

\* convert_to_usd after "rates = get_exchange_rates()" returned `got`
\* (convert_to_usd rejecting only a zero rate)
ConvertAtRateAllowsNegative(amount, rate, got) ==
    [value |-> IF IsNone(rate) THEN None
               ELSE IF Get(rate) = 0 THEN None
               ELSE Some(FloatDiv(amount, Get(rate))),
     cache |-> got.cache, requests |-> got.requests]

ConvertAtRate(amount, rate, got) ==
    [value |-> IF IsNone(rate) THEN None
               ELSE IF Get(rate) <= 0 THEN None
               ELSE Some(FloatDiv(amount, Get(rate))),
     cache |-> got.cache, requests |-> got.requests]

ConvertWithRates(amount, from_currency, got) ==
    ConvertAtRate(amount,
                  IF IsNone(got.rates) \/ IsNone(from_currency) THEN None
                  ELSE DictGet(Get(got.rates), Get(from_currency)),
                  got)

\* convert_to_usd(amount, from_currency); from_currency is an Optional string
\* (None when the payload's reportedCurrency is JSON null)
convert_to_usd(amount, from_currency, cache, t, fx) ==
    IF from_currency = Some(sUSD)
    THEN [value |-> Some(amount), cache |-> cache, requests |-> 0]
    ELSE ConvertWithRates(amount, from_currency, get_exchange_rates(cache, t, fx))

\* (a clear that leaves the cache as it is)
ClearKeepsCache == ratesCache

\* clear_exchange_rate_cache: the value the cache is set to
clear_exchange_rate_cache == None

----------------------------------------------------------------------------
(* Provider payloads.  A JSON object's member is missing, null or a string. *)

FMissing == [k |-> "missing", s |-> << >>]

FNull == [k |-> "null", s |-> << >>]

FStr(s) == [k |-> "str", s |-> s]

\* entry.get(key, default) for a string default
DictGetOr(field, default) == IF field.k = "missing" THEN FStr(default) ELSE field

\* Python truthiness of such a value: None and "" are falsy
Falsy(v) == v.k = "null" \/ v.s = << >>

\* the Optional string a value stands for
AsOptStr(v) == IF v.k = "str" THEN Some(v.s) ELSE None

\* What Alpha Vantage answers to one GET: the request raises, or JSON with an
\* optional "Error Message", an optional "Note" and a list "annualReports"
AvFailure == [kind |-> "error", error_message |-> FALSE, note |-> FALSE, annualReports |-> << >>]

AvJson(error_message, note, reports) ==
    [kind |-> "json", error_message |-> error_message, note |-> note, annualReports |-> reports]

IncomeEntry(fiscalDateEnding, netIncome, reportedCurrency) ==
    [fiscalDateEnding |-> fiscalDateEnding, netIncome |-> netIncome,
     reportedCurrency |-> reportedCurrency]

BalanceEntry(fiscalDateEnding, reportedCurrency, ta, tl, tca, gw, ia) ==
    [fiscalDateEnding |-> fiscalDateEnding, reportedCurrency |-> reportedCurrency,
     totalAssets |-> ta, totalLiabilities |-> tl, totalCurrentAssets |-> tca,
     goodwill |-> gw, intangibleAssets |-> ia]

\* records.sort(key=fiscal_year, reverse=True): a stable descending insertion sort
RECURSIVE InsertDesc(_, _)
InsertDesc(sorted, r) ==
    IF sorted = << >> THEN <<r>>
    ELSE IF Head(sorted).fiscal_year >= r.fiscal_year
         THEN <<Head(sorted)>> \o InsertDesc(Tail(sorted), r)
         ELSE <<r>> \o sorted

RECURSIVE SortDesc(_)
SortDesc(records) ==
    IF records = << >> THEN << >>
    ELSE InsertDesc(SortDesc(SubSeq(records, 1, Len(records) - 1)), records[Len(records)])

----------------------------------------------------------------------------
(* alpha_vantage.py: fetch_annual_net_income *)

\* What the "for entry in annual_reports" loop leaves: failed (a conversion
\* returned None, so the fetch returns None), the records appended, the rate
\* cache, the rate requests issued
LoopState(failed, records, cache, requests) ==
    [failed |-> failed, records |-> records, cache |-> cache, requests |-> requests]

\* the entry is skipped: a field is missing or does not parse
IncomeEntrySkipped(fiscal_date, net_income_str) ==
    \/ Falsy(fiscal_date)
    \/ Falsy(net_income_str)
    \/ net_income_str.s = sNoneWord
    \/ ~CanParseInt(Prefix(fiscal_date.s, 4))
    \/ ~CanParseFloat(net_income_str.s)

\* The loop over the entries i.., with the state st reached before entry i
RECURSIVE IncomeLoop(_, _, _, _, _, _, _)
IncomeAfterConvert(ticker_upper, reports, i, currency, st, t, fx, fiscal_year, conv) ==
    IF IsNone(conv.value)
    THEN LoopState(TRUE, st.records, conv.cache, st.requests + conv.requests)
    ELSE IncomeLoop(ticker_upper, reports, i + 1, currency,
                    LoopState(FALSE,
                              Append(st.records,
                                     IncomeRecord(ticker_upper, fiscal_year, Get(conv.value))),
                              conv.cache, st.requests + conv.requests),
                    t, fx)

\* (a loop that ends at the first entry it cannot use)
IncomeEntryStepStopsAtInvalid(ticker_upper, reports, i, currency, st, t, fx, fiscal_date, net_income_str) ==
    IF IncomeEntrySkipped(fiscal_date, net_income_str)
    THEN st
    ELSE IncomeAfterConvert(ticker_upper, reports, i, currency, st, t, fx,
                            ParseInt(Prefix(fiscal_date.s, 4)),
                            convert_to_usd(ParseFloat(net_income_str.s), currency,
                                           st.cache, t, FxAnswer(fx, st.requests + 1)))

IncomeEntryStep(ticker_upper, reports, i, currency, st, t, fx, fiscal_date, net_income_str) ==
    IF IncomeEntrySkipped(fiscal_date, net_income_str)
    THEN IncomeLoop(ticker_upper, reports, i + 1, currency, st, t, fx)
    ELSE IncomeAfterConvert(ticker_upper, reports, i, currency, st, t, fx,
                            ParseInt(Prefix(fiscal_date.s, 4)),
                            convert_to_usd(ParseFloat(net_income_str.s), currency,
                                           st.cache, t, FxAnswer(fx, st.requests + 1)))

IncomeLoop(ticker_upper, reports, i, currency, st, t, fx) ==
    IF i > Len(reports) THEN st
    ELSE IncomeEntryStep(ticker_upper, reports, i, currency, st, t, fx,
                         DictGetOr(reports[i].fiscalDateEnding, sEmpty),
                         DictGetOr(reports[i].netIncome, sEmpty))

\* (a fetch that returns None only after its request)
FetchNothingAfterRequest(cache, http) ==
    [records |-> None, cache |-> cache, http |-> 1, fx_requests |-> 0]

\* what a fetch returns: the Optional record list, the rate cache afterwards,
\* the requests issued to Alpha Vantage (http) and to the rate provider
FetchNothing(cache, http) ==
    [records |-> None, cache |-> cache, http |-> http, fx_requests |-> 0]

\* (a result that is neither checked for emptiness nor sorted)
FetchResultUnsorted(loop) ==
    [records |-> IF loop.failed THEN None ELSE Some(loop.records),
     cache |-> loop.cache, http |-> 1, fx_requests |-> loop.requests]

\* "if not records: return None", else the list sorted by fiscal year descending
FetchResult(loop) ==
    [records |-> IF loop.failed \/ loop.records = << >> THEN None
                 ELSE Some(SortDesc(loop.records)),
     cache |-> loop.cache, http |-> 1, fx_requests |-> loop.requests]

\* the error responses and the empty report list make the fetch return None
AvUnusable(av) ==
    av.kind = "error" \/ av.error_message \/ av.note \/ av.annualReports = << >>

\* (every payload taken to report in USD)
ReportedCurrencyAssumedUSD(av) == Some(sUSD)

\* reported_currency = annual_reports[0].get("reportedCurrency", "USD")
ReportedCurrency(av) == AsOptStr(DictGetOr(av.annualReports[1].reportedCurrency, sUSD))

\* fetch_annual_net_income(ticker) with ALPHA_VANTAGE_API_KEY configured (key)
\* or not, when Alpha Vantage would answer av and the rate provider fx
fetch_annual_net_income(ticker, key, av, cache, t, fx) ==
    IF ~key THEN FetchNothing(cache, 0)
    ELSE IF AvUnusable(av) THEN FetchNothing(cache, 1)
    ELSE FetchResult(IncomeLoop(Upper(ticker), av.annualReports, 1, ReportedCurrency(av),
                                LoopState(FALSE, << >>, cache, 0), t, fx))

----------------------------------------------------------------------------
(* balance_sheet.py: fetch_balance_sheet *)

\* (get_float without the 0.0 default)
FloatOrZeroStrict(val) ==
    IF val.k = "null" \/ val.s = sNoneWord \/ val.s = sEmpty THEN None
    ELSE IF CanParseFloat(val.s) THEN Some(ParseFloat(val.s))
    ELSE None

\* get_float(key): Optional float; missing, null, "None" and "" are 0.0, an
\* unparseable string is None
FloatOrZero(val) ==
    IF val.k = "null" \/ val.s = sNoneWord \/ val.s = sEmpty THEN Some(0)
    ELSE IF CanParseFloat(val.s) THEN Some(ParseFloat(val.s))
    ELSE None

get_float(field) == FloatOrZero(DictGetOr(field, <<48>>))

\* "if goodwill is None: goodwill = 0.0"
OrZero(o) == IF IsNone(o) THEN 0 ELSE Get(o)

\* the five conversions of one entry, in the order the code makes them:
\* acc holds the Optional values converted so far, the cache and the requests
\* issued since the fetch began
RECURSIVE ConvertAll(_, _, _, _, _)
ConvertNext(amounts, currency, acc, t, fx, conv) ==
    ConvertAll(Tail(amounts), currency,
               [values |-> Append(acc.values, conv.value), cache |-> conv.cache,
                requests |-> acc.requests + conv.requests],
               t, fx)

ConvertAll(amounts, currency, acc, t, fx) ==
    IF amounts = << >> THEN acc
    ELSE ConvertNext(amounts, currency, acc, t, fx,
                     convert_to_usd(Head(amounts), currency, acc.cache, t,
                                    FxAnswer(fx, acc.requests + 1)))

\* the entry is skipped: an essential field does not parse, or the fiscal date
\* is None (fiscal_date[:4] raises TypeError) or no number (int raises ValueError)
BalanceEntrySkipped(fiscal_date, total_assets, total_liabilities, total_current_assets) ==
    \/ IsNone(total_assets) \/ IsNone(total_liabilities) \/ IsNone(total_current_assets)
    \/ fiscal_date.k = "null"
    \/ ~CanParseInt(Prefix(fiscal_date.s, 4))

RECURSIVE BalanceLoop(_, _, _, _, _, _, _)
BalanceAfterConvert(ticker_upper, reports, i, currency, st, t, fx, fiscal_year, conv) ==
    IF \E k \in 1..5 : IsNone(conv.values[k])
    THEN LoopState(TRUE, st.records, conv.cache, conv.requests)
    ELSE BalanceLoop(ticker_upper, reports, i + 1, currency,
                     LoopState(FALSE,
                               Append(st.records,
                                      BalanceSheetRecord(ticker_upper, fiscal_year,
                                          Get(conv.values[1]), Get(conv.values[2]),
                                          Get(conv.values[3]), Get(conv.values[4]),
                                          Get(conv.values[5]))),
                               conv.cache, conv.requests),
                     t, fx)

BalanceEntryStep(ticker_upper, reports, i, currency, st, t, fx, fiscal_date, total_assets, total_liabilities, total_current_assets, goodwill, intangible_assets) ==
    IF BalanceEntrySkipped(fiscal_date, total_assets, total_liabilities,
                           total_current_assets)
    THEN BalanceLoop(ticker_upper, reports, i + 1, currency, st, t, fx)
    ELSE BalanceAfterConvert(ticker_upper, reports, i, currency, st, t, fx,
             ParseInt(Prefix(fiscal_date.s, 4)),
             ConvertAll(<<Get(total_assets), Get(total_liabilities),
                          Get(total_current_assets), goodwill, intangible_assets>>,
                        currency,
                        [values |-> << >>, cache |-> st.cache, requests |-> st.requests],
                        t, fx))

BalanceLoop(ticker_upper, reports, i, currency, st, t, fx) ==
    IF i > Len(reports) THEN st
    ELSE BalanceEntryStep(ticker_upper, reports, i, currency, st, t, fx,
                          DictGetOr(reports[i].fiscalDateEnding, sEmpty),
                          get_float(reports[i].totalAssets),
                          get_float(reports[i].totalLiabilities),
                          get_float(reports[i].totalCurrentAssets),
                          OrZero(get_float(reports[i].goodwill)),
                          OrZero(get_float(reports[i].intangibleAssets)))

fetch_balance_sheet(ticker, key, av, cache, t, fx) ==
    IF ~key THEN FetchNothing(cache, 0)
    ELSE IF AvUnusable(av) THEN FetchNothing(cache, 1)
    ELSE FetchResult(BalanceLoop(Upper(ticker), av.annualReports, 1, ReportedCurrency(av),
                                 LoopState(FALSE, << >>, cache, 0), t, fx))

----------------------------------------------------------------------------
(* Exact quotients: a float quotient a / b (b > 0) is the reduced fraction. *)

RECURSIVE Gcd(_, _)
Gcd(a, b) == IF b = 0 THEN a ELSE Gcd(b, a % b)

Abs(x) == IF x < 0 THEN 0 - x ELSE x

Quot(a, b) ==
    LET g == Gcd(Abs(a), b)
    IN  [num |-> a \div g, den |-> b \div g]

----------------------------------------------------------------------------
(* alpha_vantage.py: get_market_cap, calculate_7year_avg_pe, get_7year_pe *)

\* What yfinance answers: Ticker(...).info raises, or it is a dict with or
\* without a "marketCap" member, whose value may be None
YfRaise == [kind |-> "raise", has_key |-> FALSE, value |-> None]

YfInfo(has_key, value) == [kind |-> "info", has_key |-> has_key, value |-> value]

\* What the OVERVIEW endpoint answers: the request raises, or JSON with or
\* without a "MarketCapitalization" member
OvFailure == [kind |-> "error", MarketCapitalization |-> FMissing]

OvJson(field) == [kind |-> "json", MarketCapitalization |-> field]

\* data.get("MarketCapitalization") parsed: Optional float (float() raising,
\* like the request raising, is caught and gives None)
OverviewMarketCap(ov, f) ==
    IF /\ ov.kind = "json"
       /\ f.k # "missing"
       /\ ~Falsy(f)
       /\ f.s # sNoneWord
       /\ CanParseFloat(f.s)
    THEN Some(ParseFloat(f.s))
    ELSE None

\* (get_market_cap asking the OVERVIEW endpoint before looking at yfinance's value)
get_market_cap_asks_both(ticker, key, yf, ov) ==
    IF ~key
    THEN [value |-> IF yf.kind = "info" /\ yf.has_key THEN yf.value ELSE None,
          yf_requests |-> 1, ov_requests |-> 0]
    ELSE [value |-> IF yf.kind = "info" /\ yf.has_key /\ ~IsNone(yf.value)
                    THEN yf.value
                    ELSE OverviewMarketCap(ov, ov.MarketCapitalization),
          yf_requests |-> 1, ov_requests |-> 1]

\* get_market_cap: the Optional value and the requests made to each source
get_market_cap(ticker, key, yf, ov) ==
    IF yf.kind = "info" /\ yf.has_key /\ ~IsNone(yf.value)
    THEN [value |-> yf.value, yf_requests |-> 1, ov_requests |-> 0]
    ELSE IF ~key
    THEN [value |-> None, yf_requests |-> 1, ov_requests |-> 0]
    ELSE [value |-> OverviewMarketCap(ov, ov.MarketCapitalization),
          yf_requests |-> 1, ov_requests |-> 1]

YearsAveraged == 7

RECURSIVE SumNetIncome(_)
SumNetIncome(records) ==
    IF records = << >> THEN 0 ELSE Head(records).net_income + SumNetIncome(Tail(records))

\* (the seven years only descend)
ConsecutiveDescendingOnly(recent_7) ==
    \A i \in 1..(YearsAveraged - 1) :
        recent_7[i].fiscal_year - recent_7[i + 1].fiscal_year >= 1

\* the seven years are consecutive, newest first
Consecutive(recent_7) ==
    \A i \in 1..(YearsAveraged - 1) :
        recent_7[i].fiscal_year - recent_7[i + 1].fiscal_year = 1

\* avg_net_income = total / 7 is kept as the exact fraction, and
\* pe = market_cap / avg_net_income = 7 * market_cap / total
PEResult(total, market_cap) ==
    IF total <= 0 THEN None
    ELSE Some([pe |-> Quot(market_cap * YearsAveraged, total),
               avg_income |-> Quot(total, YearsAveraged)])

\* (the average taken over every record given)
calculate_7year_avg_pe_all_records(income_records, market_cap) ==
    IF Len(income_records) < YearsAveraged THEN None
    ELSE IF ~Consecutive(SubSeq(income_records, 1, YearsAveraged)) THEN None
    ELSE PEResult(SumNetIncome(income_records), market_cap)

\* calculate_7year_avg_pe: Optional PEResult
calculate_7year_avg_pe(income_records, market_cap) ==
    IF Len(income_records) < YearsAveraged THEN None
    ELSE IF ~Consecutive(SubSeq(income_records, 1, YearsAveraged)) THEN None
    ELSE PEResult(SumNetIncome(SubSeq(income_records, 1, YearsAveraged)), market_cap)

\* (need_refresh with >= for >)
NeedRefreshNonStrict(cached, latest_filing_date) ==
    \/ IsNone(cached)
    \/ /\ ~IsNone(latest_filing_date)
       /\ Get(latest_filing_date) # sEmpty
       /\ ~StrGreater(Get(cached).last_updated, Get(latest_filing_date))

\* "need_refresh" of get_7year_pe and of get_asset_valuation:
\*   cached is None, or latest_filing_date and latest_filing_date > cached.last_updated
NeedRefresh(cached, latest_filing_date) ==
    \/ IsNone(cached)
    \/ /\ ~IsNone(latest_filing_date)
       /\ Get(latest_filing_date) # sEmpty
       /\ StrGreater(Get(latest_filing_date), Get(cached).last_updated)

\* The outcome of one orchestrator call on the table `table`:
\*   table, commit  the table the connection sees afterwards; whether commit ran
\*   raised         the call ended with an exception (sqlite3.IntegrityError)
\*   read_cache     the call got as far as reading the cache
\*   need_refresh   the value of need_refresh
\*   adapter_calls  calls of the adapter
\*   fetched        what the adapter returned (None also when it was not called)
\*   evaluated      the cached series the final test reads
\*   result         the Optional result returned (None when raised)
\* Refreshed is the part the refresh block decides, Outcome the whole.
Refreshed(table, commit, need_refresh, fetch) ==
    [table |-> table, commit |-> commit, need_refresh |-> need_refresh, fetch |-> fetch]

\* (a query without refresh that drops the rate cache)
NotFetchedClearsCache(cache) == [records |-> None, cache |-> None, http |-> 0, fx_requests |-> 0]

NotFetched(cache) == [records |-> None, cache |-> cache, http |-> 0, fx_requests |-> 0]

Outcome(r, raised, read_cache, evaluated, yf_requests, ov_requests, result) ==
    [table |-> r.table, commit |-> r.commit, raised |-> raised,
     cache |-> r.fetch.cache, read_cache |-> read_cache,
     need_refresh |-> r.need_refresh,
     adapter_calls |-> IF r.need_refresh THEN 1 ELSE 0,
     http |-> r.fetch.http, fx_requests |-> r.fetch.fx_requests,
     fetched |-> r.fetch.records, evaluated |-> evaluated,
     yf_requests |-> yf_requests, ov_requests |-> ov_requests, result |-> result]

\* get_7year_pe from "if market_cap is None: market_cap = get_market_cap(...)"
PeWithMarketCap(r, cached, mc) ==
    Outcome(r, FALSE, TRUE, cached, mc.yf_requests, mc.ov_requests,
            IF IsNone(mc.value) THEN None
            ELSE calculate_7year_avg_pe(Get(cached).annual_income, Get(mc.value)))

\* (the market cap fetched before the record count is looked at)
PeEvaluateAsksFirst(r, cached, ticker_upper, market_cap, key, yf, ov) ==
    IF IsNone(cached) \/ Len(Get(cached).annual_income) < YearsAveraged
    THEN Outcome(r, FALSE, TRUE, cached,
                 IF IsNone(market_cap) THEN 1 ELSE 0, 0, None)
    ELSE IF IsNone(market_cap)
    THEN PeWithMarketCap(r, cached, get_market_cap(ticker_upper, key, yf, ov))
    ELSE PeWithMarketCap(r, cached,
                         [value |-> market_cap, yf_requests |-> 0, ov_requests |-> 0])

\* get_7year_pe from "if cached is None or len(cached.annual_income) < 7"
PeEvaluate(r, cached, ticker_upper, market_cap, key, yf, ov) ==
    IF IsNone(cached) \/ Len(Get(cached).annual_income) < YearsAveraged
    THEN Outcome(r, FALSE, TRUE, cached, 0, 0, None)
    ELSE IF IsNone(market_cap)
    THEN PeWithMarketCap(r, cached, get_market_cap(ticker_upper, key, yf, ov))
    ELSE PeWithMarketCap(r, cached,
                         [value |-> market_cap, yf_requests |-> 0, ov_requests |-> 0])

\* get_7year_pe after save_income returned or raised
PeAfterSave(fetch, saved, ticker_upper, market_cap, key, yf, ov) ==
    IF saved.raised
    THEN Outcome(Refreshed(saved.table, FALSE, TRUE, fetch), TRUE, TRUE, None, 0, 0, None)
    ELSE PeEvaluate(Refreshed(saved.table, TRUE, TRUE, fetch),
                    get_cached_income(saved.table, ticker_upper),
                    ticker_upper, market_cap, key, yf, ov)

\* (get_7year_pe without "if new_records:": a failed fetch saves nothing over
\* the cached rows)
PeAfterFetchAlwaysSaves(table, cached, fetch, ticker_upper, market_cap, key, t, yf, ov) ==
    PeAfterSave(fetch,
                save_income(table, ticker_upper,
                            IF IsNone(fetch.records) THEN << >> ELSE Get(fetch.records),
                            Today(t)),
                ticker_upper, market_cap, key, yf, ov)

\* get_7year_pe after fetch_annual_net_income returned
PeAfterFetch(table, cached, fetch, ticker_upper, market_cap, key, t, yf, ov) ==
    IF IsNone(fetch.records)
    THEN PeEvaluate(Refreshed(table, FALSE, TRUE, fetch), cached,
                    ticker_upper, market_cap, key, yf, ov)
    ELSE PeAfterSave(fetch,
                     save_income(table, ticker_upper, Get(fetch.records), Today(t)),
                     ticker_upper, market_cap, key, yf, ov)

\* get_7year_pe after "cached = get_cached_income(conn, ticker_upper)"
PeAfterRead(table, cached, ticker_upper, market_cap, latest_filing_date, key, av, cache, t, fx, yf, ov) ==
    IF NeedRefresh(cached, latest_filing_date)
    THEN PeAfterFetch(table, cached,
                      fetch_annual_net_income(ticker_upper, key, av, cache, t, fx),
                      ticker_upper, market_cap, key, t, yf, ov)
    ELSE PeEvaluate(Refreshed(table, FALSE, FALSE, NotFetched(cache)), cached,
                    ticker_upper, market_cap, key, yf, ov)

get_7year_pe(table, ticker, market_cap, latest_filing_date, key, av, cache, t, fx, yf, ov) ==
    PeAfterRead(table, get_cached_income(table, Upper(ticker)), Upper(ticker),
                market_cap, latest_filing_date, key, av, cache, t, fx, yf, ov)

----------------------------------------------------------------------------
(* balance_sheet.py: calculate_asset_valuation, get_asset_valuation *)

\* (P/NCAV given only when NTA is positive too)
AssetValuationResultTied(nta, ncav, market_cap) ==
    [nta |-> nta, ncav |-> ncav,
     p_nta |-> IF nta > 0 THEN Some(Quot(market_cap, nta)) ELSE None,
     p_ncav |-> IF nta > 0 /\ ncav > 0 THEN Some(Quot(market_cap, ncav)) ELSE None]

\* AssetValuationResult; the P-ratios are Optional exact quotients
AssetValuationResult(nta, ncav, market_cap) ==
    [nta |-> nta, ncav |-> ncav,
     p_nta |-> IF nta > 0 THEN Some(Quot(market_cap, nta)) ELSE None,
     p_ncav |-> IF ncav > 0 THEN Some(Quot(market_cap, ncav)) ELSE None]

\* (NTA with the intangible assets left in)
calculate_asset_valuation_tangible_only(record, market_cap) ==
    AssetValuationResult(record.total_assets - record.total_liabilities - record.goodwill,
                         record.total_current_assets - record.total_liabilities,
                         market_cap)

calculate_asset_valuation(record, market_cap) ==
    AssetValuationResult(record.total_assets - record.total_liabilities
                             - record.goodwill - record.intangible_assets,
                         record.total_current_assets - record.total_liabilities,
                         market_cap)

\* (the valuation of the oldest cached record)
AvEvaluateOldest(r, cached, market_cap) ==
    Outcome(r, FALSE, TRUE, cached, 0, 0,
            IF IsNone(cached) THEN None
            ELSE IF Get(cached).annual_records = << >> THEN None
            ELSE Some(calculate_asset_valuation(
                          Get(cached).annual_records[Len(Get(cached).annual_records)],
                          market_cap)))

\* get_asset_valuation from "if cached is None or not cached.annual_records"
AvEvaluate(r, cached, market_cap) ==
    Outcome(r, FALSE, TRUE, cached, 0, 0,
            IF IsNone(cached) THEN None
            ELSE IF Get(cached).annual_records = << >> THEN None
            ELSE Some(calculate_asset_valuation(Get(cached).annual_records[1],
                                                market_cap)))

\* get_asset_valuation after save_balance_sheet returned or raised
AvAfterSave(fetch, saved, ticker_upper, market_cap) ==
    IF saved.raised
    THEN Outcome(Refreshed(saved.table, FALSE, TRUE, fetch), TRUE, TRUE, None, 0, 0, None)
    ELSE AvEvaluate(Refreshed(saved.table, TRUE, TRUE, fetch),
                    get_cached_balance_sheet(saved.table, ticker_upper), market_cap)

\* get_asset_valuation after fetch_balance_sheet returned
AvAfterFetch(table, cached, fetch, ticker_upper, market_cap, t) ==
    IF IsNone(fetch.records)
    THEN AvEvaluate(Refreshed(table, FALSE, TRUE, fetch), cached, market_cap)
    ELSE AvAfterSave(fetch,
                     save_balance_sheet(table, ticker_upper, Get(fetch.records), Today(t)),
                     ticker_upper, market_cap)

\* get_asset_valuation after "cached = get_cached_balance_sheet(conn, ticker_upper)"
AvAfterRead(table, cached, ticker_upper, market_cap, latest_filing_date, key, av, cache, t, fx) ==
    IF NeedRefresh(cached, latest_filing_date)
    THEN AvAfterFetch(table, cached,
                      fetch_balance_sheet(ticker_upper, key, av, cache, t, fx),
                      ticker_upper, market_cap, t)
    ELSE AvEvaluate(Refreshed(table, FALSE, FALSE, NotFetched(cache)), cached, market_cap)

\* (the cache read before the market cap is looked at)
get_asset_valuation_reads_first(table, ticker, market_cap, latest_filing_date, key, av, cache, t, fx) ==
    IF IsNone(market_cap)
    THEN Outcome(Refreshed(table, FALSE, FALSE, NotFetched(cache)),
                 FALSE, TRUE, None, 0, 0, None)
    ELSE AvAfterRead(table, get_cached_balance_sheet(table, Upper(ticker)), Upper(ticker),
                     Get(market_cap), latest_filing_date, key, av, cache, t, fx)

\* The outcome of one get_asset_valuation call; "if market_cap is None:
\* return None" comes before anything else
get_asset_valuation(table, ticker, market_cap, latest_filing_date, key, av, cache, t, fx) ==
    IF IsNone(market_cap)
    THEN Outcome(Refreshed(table, FALSE, FALSE, NotFetched(cache)),
                 FALSE, FALSE, None, 0, 0, None)
    ELSE AvAfterRead(table, get_cached_balance_sheet(table, Upper(ticker)), Upper(ticker),
                     Get(market_cap), latest_filing_date, key, av, cache, t, fx)

----------------------------------------------------------------------------
(* Inputs.  The environment (callers, providers, the clock) is bounded by    *)
(* the sets below.                                                          *)

\* decimal text of an integer, as the providers send numbers
RECURSIVE NatStr(_)
NatStr(n) == IF n < 10 THEN <<Digit(n)>> ELSE NatStr(n \div 10) \o <<Digit(n % 10)>>

NumStr(n) == IF n < 0 THEN <<45>> \o NatStr(0 - n) ELSE NatStr(n)

\* "ab", "Ab" and "AB" spell one ticker, "c" another
TickerSpellings == {<<97, 98>>, <<65, 98>>, <<65, 66>>}

OtherTicker == <<99>>

\* the spellings save_balance_sheet is called with
BalanceTickers == {<<97, 98>>}

\* the spelling the orchestrators are queried with
QueryTickers == {<<65, 98>>}

\* the clock advances by a day, MaxTicks times
TickSeconds == 24 * 60 * 60

MaxTicks == 1

\* latest_filing_date: absent, or one of the first two days of the calendar
FilingDates == {None, Some(DateOfDay(0)), Some(DateOfDay(1))}

MarketCaps == {None, Some(200)}

FiscalEnd(y) == FStr(IsoFormat(y, 12, 31))

\* seven consecutive fiscal years 2018..2024 in ascending order, net incomes
\* summing to 70, after a year whose net income is the "None" sentinel
SevenYearReports ==
    << IncomeEntry(FiscalEnd(2017), FStr(sNoneWord), FMissing) >>
    \o [i \in 1..7 |-> IncomeEntry(FiscalEnd(2017 + i),
                                   FStr(NumStr(<<10, 12, 11, 10, 8, 9, 10>>[i])), FStr(sUSD))]

IncomeResponses ==
    { AvFailure,
      AvJson(TRUE, FALSE, << >>),
      AvJson(FALSE, TRUE, SevenYearReports),
      AvJson(FALSE, FALSE, SevenYearReports),
      \* a change of fiscal year end: two annual reports ending in 2024
      AvJson(FALSE, FALSE, << IncomeEntry(FStr(IsoFormat(2024, 12, 31)), FStr(NumStr(8)), FStr(sUSD)),
                              IncomeEntry(FStr(IsoFormat(2024, 1, 31)), FStr(NumStr(2)), FStr(sUSD)) >>) }

BalanceResponses ==
    { AvFailure,
      AvJson(FALSE, FALSE, << >>),
      AvJson(FALSE, FALSE, << BalanceEntry(FiscalEnd(2023), FStr(sUSD), FStr(NumStr(90)),
                                  FStr(NumStr(45)), FStr(NumStr(28)), FStr(sNoneWord), FMissing),
                              BalanceEntry(FiscalEnd(2024), FStr(sUSD), FStr(NumStr(100)),
                                  FStr(NumStr(50)), FStr(NumStr(40)), FStr(NumStr(5)),
                                  FStr(NumStr(3))) >>),
      \* a change of fiscal year end: two annual reports ending in 2024
      AvJson(FALSE, FALSE, << BalanceEntry(FStr(IsoFormat(2024, 12, 31)), FMissing,
                                  FStr(NumStr(80)), FStr(NumStr(90)), FStr(NumStr(20)), FNull, FNull),
                              BalanceEntry(FStr(IsoFormat(2024, 1, 31)), FMissing,
                                  FStr(NumStr(70)), FStr(NumStr(60)), FStr(NumStr(20)), FNull, FNull) >>),
      \* a company reporting in DKK
      AvJson(FALSE, FALSE, << BalanceEntry(FiscalEnd(2024), FStr(sDKK), FStr(NumStr(60)),
                                  FStr(NumStr(20)), FStr(NumStr(50)), FStr(NumStr(4)),
                                  FStr(NumStr(2))) >>) }

FxResponses ==
    { FxFailure,
      FxJson(TRUE, {<<sDKK, 2>>, <<sEUR, 1>>}),
      FxJson(TRUE, {<<sDKK, 0>>, <<sEUR, 1>>}) }

\* answers to direct rate requests: failures (the request raises, a result
\* that is not "success", no rates), two tables that differ in the DKK rate,
\* and a table with a zero and a negative rate
RateAnswers ==
    { FxFailure,
      FxJson(FALSE, {<<sDKK, 2>>, <<sEUR, 1>>}),
      FxJson(TRUE, {}),
      FxJson(TRUE, {<<sDKK, 2>>, <<sEUR, 1>>}),
      FxJson(TRUE, {<<sDKK, 4>>, <<sEUR, 1>>}),
      FxJson(TRUE, {<<sDKK, 0>>, <<sEUR, 0 - 1>>}) }

\* "SEK": a currency no table lists
sSEK == <<83, 69, 75>>

\* from_currency of direct conversions
Currencies == {Some(sUSD), Some(sDKK), Some(sEUR), Some(sSEK)}

\* amounts of direct conversions: multiples of every positive rate
Amounts == {0, 8, 0 - 4}

\* the clock of the rate cache advances by half the expiration window
HalfWindowSeconds == 12 * 60 * 60

MaxHalfWindows == 3

YfResponses == {YfRaise, YfInfo(TRUE, Some(200))}

OvResponses == {OvJson(FStr(sNoneWord)), OvJson(FStr(NumStr(140)))}

\* record lists handed to save_income directly: one year; two years in
\* ascending order; the same fiscal year twice, then an older year.
\* The other ticker is saved with the one-year list only.
IncomeLists(t) ==
    IF t = OtherTicker
    THEN { << IncomeRecord(t, 2023, 5) >> }
    ELSE { << IncomeRecord(t, 2023, 5) >>,
           << IncomeRecord(t, 2023, 7), IncomeRecord(t, 2024, 9) >>,
           << IncomeRecord(t, 2024, 1), IncomeRecord(t, 2024, 2), IncomeRecord(t, 2022, 3) >> }

BalanceLists(t) ==
    { << BalanceSheetRecord(t, 2023, 80, 40, 25, 4, 2) >>,
      << BalanceSheetRecord(t, 2023, 90, 45, 28, 5, 3),
         BalanceSheetRecord(t, 2024, 100, 50, 30, 5, 3) >>,
      << BalanceSheetRecord(t, 2024, 10, 50, 30, 0, 0),
         BalanceSheetRecord(t, 2024, 20, 50, 30, 0, 0) >> }

\* last_updated values handed to save directly
SaveDates == {IsoFormat(2024, 1, 1), IsoFormat(2025, 1, 15)}

\* ConstituentRecords handed to insert_constituent
ConstituentRecord(t, index_code, added_date, removed_date) ==
    [ticker |-> t, index_code |-> index_code, added_date |-> added_date,
     removed_date |-> removed_date]

ConstituentRecords ==
    { ConstituentRecord(<<65, 66>>, "sp500", Some(IsoFormat(1982, 11, 30)), None),
      ConstituentRecord(<<65, 66>>, "sp500", None, Some(IsoFormat(2020, 6, 1))),
      ConstituentRecord(<<97, 98>>, "nasdaq100", Some(IsoFormat(1985, 1, 31)), None) }

MaxConstituentRows == 2

----------------------------------------------------------------------------
(* State *)

Tables == [income |-> income, balance |-> balance, constituents |-> constituents]

\* `last` records the most recent call: its arguments and what it did.  seq
\* tells a call from the one before it; replaced tells whether the DELETE
\* of a direct save found rows of the ticker.  For a direct rate call,
\* amount and currency are its arguments, answer what the provider would
\* answer, had_cache whether the rate cache was present before the call.
\* For a direct adapter call, payload is what Alpha Vantage answers and
\* answers what the rate provider answers to the successive requests.
NoCall ==
    [seq |-> 0, op |-> "none", ticker |-> sEmpty, records |-> None, last_updated |-> None,
     replaced |-> FALSE,
     amount |-> 0, currency |-> None, answer |-> FxFailure, had_cache |-> FALSE,
     payload |-> AvFailure, answers |-> <<FxFailure>>,
     market_cap |-> None, latest_filing_date |-> None,
     read_cache |-> FALSE, need_refresh |-> FALSE,
     adapter_calls |-> 0, http |-> 0, fx_requests |-> 0, fetched |-> None,
     commit |-> FALSE, raised |-> FALSE, evaluated |-> None,
     yf_requests |-> 0, ov_requests |-> 0, result |-> None,
     yf |-> YfRaise, ov |-> OvFailure,
     company_tickers |-> [kind |-> "error", entries |-> {}],
     submissions |-> [kind |-> "error", has_filings |-> FALSE, recent |-> << >>],
     money |-> [negative |-> FALSE, dollars |-> 0, cents |-> 0]]

\* init_db on a new database file; the rate cache is absent at import; the
\* two callers have not started
Init ==
    /\ income = {}
    /\ balance = {}
    /\ constituents = << >>
    /\ durable = [income |-> {}, balance |-> {}, constituents |-> << >>]
    /\ api_key \in BOOLEAN
    /\ ratesCache = None
    /\ now = 0
    /\ refresh = [p \in 1..2 |-> [pc |-> "start", fetched |-> None, view |-> {}]]
    /\ fetching = [pc |-> "idle", currency |-> None, pending |-> << >>, records |-> << >>,
                   tables |-> << >>, result |-> None]
    /\ last = NoCall

\* what an orchestrator call leaves in `last`
CallRecord(op, ticker, market_cap, latest_filing_date, o) ==
    [NoCall EXCEPT !.seq = 1 - last.seq,
                   !.op = op, !.ticker = ticker, !.market_cap = market_cap,
                   !.latest_filing_date = latest_filing_date,
                   !.read_cache = o.read_cache,
                   !.need_refresh = o.need_refresh, !.adapter_calls = o.adapter_calls,
                   !.http = o.http, !.fx_requests = o.fx_requests, !.fetched = o.fetched,
                   !.commit = o.commit, !.raised = o.raised, !.evaluated = o.evaluated,
                   !.yf_requests = o.yf_requests, !.ov_requests = o.ov_requests,
                   !.result = o.result]

\* A provider answers only when it is asked: the answers of providers the
\* call cannot reach are fixed, which leaves the outcome unchanged.
AvAsked(refreshing, responses) ==
    IF api_key /\ refreshing THEN responses ELSE {AvFailure}

FxAsked(av) ==
    IF /\ av.annualReports # << >>
       /\ AsOptStr(DictGetOr(av.annualReports[1].reportedCurrency, sUSD)) # Some(sUSD)
       /\ ~CacheFresh(ratesCache, now)
    THEN {<<f>> : f \in FxResponses} ELSE {<<FxFailure>>}

YfAsked(market_cap) == IF IsNone(market_cap) THEN YfResponses ELSE {YfRaise}

OvAsked(market_cap, yf) ==
    IF IsNone(market_cap) /\ api_key /\ IsNone(yf.value) THEN OvResponses ELSE {OvFailure}

----------------------------------------------------------------------------
(* Actions: one per call *)

\* the state after a get_7year_pe call with outcome o
Get7YearPEReturns(ticker, market_cap, latest_filing_date, o) ==
    /\ income' = o.table
    /\ ratesCache' = o.cache
    /\ durable' = IF o.commit THEN [Tables EXCEPT !.income = o.table] ELSE durable
    /\ last' = CallRecord("get_7year_pe", ticker, market_cap, latest_filing_date, o)
    /\ UNCHANGED <<balance, constituents, api_key, refresh, fetching, now>>

\* get_7year_pe(conn, ticker, market_cap, latest_filing_date)
Get7YearPE ==
    \E ticker \in QueryTickers, market_cap \in MarketCaps,
       latest_filing_date \in FilingDates :
    \E av \in AvAsked(NeedRefresh(get_cached_income(income, ticker), latest_filing_date),
                      IncomeResponses) :
    \E fx \in FxAsked(av), yf \in YfAsked(market_cap) :
    \E ov \in OvAsked(market_cap, yf) :
        Get7YearPEReturns(ticker, market_cap, latest_filing_date,
                          get_7year_pe(income, ticker, market_cap, latest_filing_date,
                                       api_key, av, ratesCache, now, fx, yf, ov))

\* the state after a get_asset_valuation call with outcome o
GetAssetValuationReturns(ticker, market_cap, latest_filing_date, o) ==
    /\ balance' = o.table
    /\ ratesCache' = o.cache
    /\ durable' = IF o.commit THEN [Tables EXCEPT !.balance = o.table] ELSE durable
    /\ last' = CallRecord("get_asset_valuation", ticker, market_cap, latest_filing_date, o)
    /\ UNCHANGED <<income, constituents, api_key, refresh, fetching, now>>

\* get_asset_valuation(conn, ticker, market_cap, latest_filing_date)
GetAssetValuation ==
    \E ticker \in QueryTickers, market_cap \in MarketCaps,
       latest_filing_date \in FilingDates :
    \E av \in AvAsked(/\ ~IsNone(market_cap)
                      /\ NeedRefresh(get_cached_balance_sheet(balance, ticker),
                                     latest_filing_date),
                      BalanceResponses) :
    \E fx \in FxAsked(av) :
        GetAssetValuationReturns(ticker, market_cap, latest_filing_date,
                                 get_asset_valuation(balance, ticker, market_cap,
                                                     latest_filing_date, api_key, av,
                                                     ratesCache, now, fx))

\* what a direct save call leaves in `last`
SaveRecord(op, ticker, records, last_updated, replaced, sv) ==
    [NoCall EXCEPT !.seq = 1 - last.seq,
                   !.op = op, !.ticker = ticker, !.records = Some(records),
                   !.last_updated = Some(last_updated), !.replaced = replaced,
                   !.commit = ~sv.raised, !.raised = sv.raised]

\* the state after save_income ended as sv: conn.commit() is the last statement
SaveIncomeReturns(ticker, records, last_updated, sv) ==
    /\ income' = sv.table
    /\ durable' = IF sv.raised THEN durable ELSE [Tables EXCEPT !.income = sv.table]
    /\ last' = SaveRecord("save_income", ticker, records, last_updated,
                          SelectWhereTicker(income, Upper(ticker)) # {}, sv)
    /\ UNCHANGED <<balance, constituents, api_key, refresh, fetching, ratesCache, now>>

\* save_income(conn, ticker, records, last_updated), called directly
SaveIncome ==
    \E ticker \in TickerSpellings \cup {OtherTicker}, last_updated \in SaveDates :
    \E records \in IncomeLists(ticker) :
        SaveIncomeReturns(ticker, records, last_updated,
                          save_income(income, ticker, records, last_updated))

SaveBalanceSheetReturns(ticker, records, last_updated, sv) ==
    /\ balance' = sv.table
    /\ durable' = IF sv.raised THEN durable ELSE [Tables EXCEPT !.balance = sv.table]
    /\ last' = SaveRecord("save_balance_sheet", ticker, records, last_updated,
                          SelectWhereTicker(balance, Upper(ticker)) # {}, sv)
    /\ UNCHANGED <<income, constituents, api_key, refresh, fetching, ratesCache, now>>

\* save_balance_sheet(conn, ticker, records, last_updated), called directly
SaveBalanceSheet ==
    \E ticker \in BalanceTickers, last_updated \in SaveDates :
    \E records \in BalanceLists(ticker) :
        SaveBalanceSheetReturns(ticker, records, last_updated,
                                save_balance_sheet(balance, ticker, records, last_updated))

\* insert_constituent(conn, record): INSERT OR IGNORE, then conn.commit(), which
\* commits whatever the connection's open transaction holds
InsertConstituent ==
    \E record \in ConstituentRecords :
        /\ Len(constituents) < MaxConstituentRows
        /\ constituents' = insert_constituent(constituents, record)
        /\ durable' = [Tables EXCEPT !.constituents = constituents']
        /\ last' = [NoCall EXCEPT !.seq = 1 - last.seq,
                                  !.op = "insert_constituent", !.ticker = record.ticker,
                                  !.commit = TRUE]
        /\ UNCHANGED <<income, balance, api_key, refresh, fetching, ratesCache, now>>

\* conn.close() followed by init_db(DB_PATH): an open transaction is rolled
\* back, the new connection sees the committed tables
Reconnect ==
    /\ income' = durable.income
    /\ balance' = durable.balance
    /\ constituents' = durable.constituents
    /\ last' = [NoCall EXCEPT !.seq = 1 - last.seq, !.op = "reconnect"]
    /\ UNCHANGED <<durable, api_key, refresh, fetching, ratesCache, now>>

\* time passes
Tick ==
    /\ now < MaxTicks * TickSeconds
    /\ now' = now + TickSeconds
    /\ last' = [NoCall EXCEPT !.seq = 1 - last.seq, !.op = "tick"]
    /\ UNCHANGED <<income, balance, constituents, durable, api_key, refresh, fetching, ratesCache>>

\* The orchestrators over one connection, as time passes
Next == Get7YearPE \/ GetAssetValuation \/ Reconnect \/ Tick

Spec == Init /\ [][Next]_vars

\* The store called directly
NextStore == SaveIncome \/ SaveBalanceSheet \/ InsertConstituent \/ Reconnect

\* the store never reads the API key
InitStore == Init /\ api_key

SpecStore == InitStore /\ [][NextStore]_vars

\* A rate request reaches the provider only when the cache is not fresh
RateAsked(from_currency) ==
    IF from_currency # Some(sUSD) /\ ~CacheFresh(ratesCache, now)
    THEN RateAnswers ELSE {FxFailure}

\* what a direct rate call leaves in `last`
RateRecord(op, amount, from_currency, fx, requests, result) ==
    [NoCall EXCEPT !.seq = 1 - last.seq, !.op = op, !.amount = amount,
                   !.currency = from_currency, !.answer = fx,
                   !.had_cache = ~IsNone(ratesCache),
                   !.fx_requests = requests, !.result = result]

ConvertToUsdReturns(amount, from_currency, fx, conv) ==
    /\ ratesCache' = conv.cache
    /\ last' = RateRecord("convert_to_usd", amount, from_currency, fx, conv.requests,
                          conv.value)
    /\ UNCHANGED <<income, balance, constituents, durable, api_key, refresh, fetching, now>>

\* convert_to_usd(amount, from_currency), called directly
ConvertToUsd ==
    \E amount \in Amounts, from_currency \in Currencies :
    \E fx \in RateAsked(from_currency) :
        ConvertToUsdReturns(amount, from_currency, fx,
                            convert_to_usd(amount, from_currency, ratesCache, now, fx))

GetExchangeRatesReturns(fx, got) ==
    /\ ratesCache' = got.cache
    /\ last' = RateRecord("get_exchange_rates", 0, None, fx, got.requests, got.rates)
    /\ UNCHANGED <<income, balance, constituents, durable, api_key, refresh, fetching, now>>

\* get_exchange_rates(), called directly
GetExchangeRates ==
    \E fx \in RateAsked(None) :
        GetExchangeRatesReturns(fx, get_exchange_rates(ratesCache, now, fx))

\* clear_exchange_rate_cache()
ClearExchangeRateCache ==
    /\ ratesCache' = clear_exchange_rate_cache
    /\ last' = RateRecord("clear_exchange_rate_cache", 0, None, FxFailure, 0, None)
    /\ UNCHANGED <<income, balance, constituents, durable, api_key, refresh, fetching, now>>

\* half an expiration window passes
TickHalfWindow ==
    /\ now < MaxHalfWindows * HalfWindowSeconds
    /\ now' = now + HalfWindowSeconds
    /\ last' = [NoCall EXCEPT !.seq = 1 - last.seq, !.op = "tick"]
    /\ UNCHANGED <<income, balance, constituents, durable, api_key, refresh, fetching, ratesCache>>

\* The exchange-rate cache called directly, as time passes
NextRates == ConvertToUsd \/ GetExchangeRates \/ ClearExchangeRateCache \/ TickHalfWindow

SpecRates == InitStore /\ [][NextRates]_vars

----------------------------------------------------------------------------
(* The adapters called directly *)

\* what a payload field can hold in place of a usable value: the member is
\* missing, null, "", the "None" sentinel, or a string that does not parse ("x")
FieldFaults == {FMissing, FNull, FStr(sEmpty), FStr(sNoneWord), FStr(<<120>>)}

\* INCOME_STATEMENT answers: a 2024 entry that is valid or has one faulty
\* field, alone or before a valid later year, or before a second entry whose
\* fiscal date falls in 2024 too (a changed fiscal year end); the first
\* entry's reportedCurrency is missing, null or DKK
IncomePayloads ==
    LET On(y, v) == IncomeEntry(FiscalEnd(y), FStr(NumStr(v)), FMissing)
        entries == {On(2024, 8)}
                   \cup {IncomeEntry(d, FStr(NumStr(8)), FMissing) : d \in FieldFaults}
                   \cup {IncomeEntry(FiscalEnd(2024), v, FMissing) : v \in FieldFaults}
        lists == UNION {{<<e>>, <<e, On(2025, 12)>>} : e \in entries}
                 \cup {<<On(2024, 8), IncomeEntry(FStr(IsoFormat(2024, 1, 31)),
                                                  FStr(NumStr(12)), FMissing)>>}
    IN  {AvJson(FALSE, FALSE, [r EXCEPT ![1].reportedCurrency = c]) :
            r \in lists, c \in {FMissing, FNull, FStr(sDKK)}}

\* BALANCE_SHEET answers, built the same way: one field of the 2024 entry is
\* faulty; a later year follows the valid entry and those with faulty total assets
BalancePayloads ==
    LET On(y, ta) == BalanceEntry(FiscalEnd(y), FMissing, FStr(NumStr(ta)), FStr(NumStr(8)),
                                  FStr(NumStr(4)), FStr(NumStr(12)), FStr(NumStr(20)))
        entries == {On(2024, 16)}
                   \cup {[On(2024, 16) EXCEPT ![f] = v] :
                            f \in {"fiscalDateEnding", "totalAssets", "totalLiabilities",
                                   "totalCurrentAssets", "goodwill", "intangibleAssets"},
                            v \in FieldFaults}
        lists == {<<e>> : e \in entries}
                 \cup {<<[On(2024, 16) EXCEPT !.totalAssets = v], On(2025, 32)>> :
                          v \in FieldFaults \cup {FStr(NumStr(16))}}
                 \cup {<<On(2024, 16),
                         [On(2024, 32) EXCEPT !.fiscalDateEnding = FStr(IsoFormat(2024, 1, 31))]>>}
    IN  {AvJson(FALSE, FALSE, [r EXCEPT ![1].reportedCurrency = c]) :
            r \in lists, c \in {FMissing, FNull, FStr(sDKK)}}

\* the rate provider's answers to the successive requests of one fetch: it
\* answers, fails once and then answers, or quotes DKK at 0
FetchRateAnswers ==
    { <<FxJson(TRUE, {<<sDKK, 2>>, <<sEUR, 1>>})>>,
      <<FxFailure, FxJson(TRUE, {<<sDKK, 2>>, <<sEUR, 1>>})>>,
      <<FxJson(TRUE, {<<sDKK, 0>>, <<sEUR, 1>>})>> }

\* the state after a direct adapter call that returned f
FetchReturns(op, ticker, av, fx, f) ==
    /\ ratesCache' = f.cache
    /\ last' = [NoCall EXCEPT !.seq = 1 - last.seq, !.op = op, !.ticker = ticker,
                              !.payload = av, !.answers = fx,
                              !.had_cache = ~IsNone(ratesCache),
                              !.http = f.http, !.fx_requests = f.fx_requests,
                              !.result = f.records]
    /\ UNCHANGED <<income, balance, constituents, durable, api_key, refresh, fetching, now>>

\* fetch_annual_net_income(ticker); the rate provider is reached only when
\* the payload reports another currency than USD and the cache is not fresh
FetchAnnualNetIncome ==
    \E ticker \in BalanceTickers, av \in IncomePayloads :
    \E fx \in (IF ReportedCurrency(av) # Some(sUSD) /\ ~CacheFresh(ratesCache, now)
               THEN FetchRateAnswers ELSE {<<FxFailure>>}) :
        FetchReturns("fetch_annual_net_income", ticker, av, fx,
                     fetch_annual_net_income(ticker, api_key, av, ratesCache, now, fx))

\* fetch_balance_sheet(ticker)
FetchBalanceSheet ==
    \E ticker \in BalanceTickers, av \in BalancePayloads :
    \E fx \in (IF ReportedCurrency(av) # Some(sUSD) /\ ~CacheFresh(ratesCache, now)
               THEN FetchRateAnswers ELSE {<<FxFailure>>}) :
        FetchReturns("fetch_balance_sheet", ticker, av, fx,
                     fetch_balance_sheet(ticker, api_key, av, ratesCache, now, fx))

\* The adapters called directly, with the rate cache present or cleared
NextFetch == FetchAnnualNetIncome \/ FetchBalanceSheet \/ ClearExchangeRateCache

SpecFetch == InitStore /\ [][NextFetch]_vars

----------------------------------------------------------------------------
(* Two refreshes of one ticker at the same time.  The core has no thread    *)
(* and no lock: two callers of get_7year_pe run it on connections of their  *)
(* own to the same database file, which is `durable`.  refresh[p].pc is     *)
(* where caller p stands: "start", "fetched" (the adapter returned the      *)
(* records refresh[p].fetched), "written" (DELETE and the INSERTs are done   *)
(* in the open transaction, whose rows are refresh[p].view), "done", or the *)
(* exception get_7year_pe raised.  SQLite admits one writing transaction    *)
(* per file: a DELETE on another connection waits for it, and raises        *)
(* sqlite3.OperationalError when the busy timeout of connect() elapses.     *)

\* INCOME_STATEMENT answers to the two callers: 2023 and 2024; 2024 and 2025;
\* two annual reports ending in 2024
RefreshPayloads ==
    { AvJson(FALSE, FALSE, << IncomeEntry(FiscalEnd(2024), FStr(NumStr(8)), FStr(sUSD)),
                              IncomeEntry(FiscalEnd(2023), FStr(NumStr(6)), FStr(sUSD)) >>),
      AvJson(FALSE, FALSE, << IncomeEntry(FiscalEnd(2025), FStr(NumStr(9)), FStr(sUSD)),
                              IncomeEntry(FiscalEnd(2024), FStr(NumStr(7)), FStr(sUSD)) >>),
      AvJson(FALSE, FALSE, << IncomeEntry(FStr(IsoFormat(2024, 12, 31)), FStr(NumStr(8)), FStr(sUSD)),
                              IncomeEntry(FStr(IsoFormat(2024, 1, 31)), FStr(NumStr(2)), FStr(sUSD)) >>) }

\* get_7year_pe up to the adapter's return: the cached series is read, and
\* when the refresh is needed the adapter is called
RefreshFetch(p) ==
    /\ refresh[p].pc = "start"
    /\ \E ticker \in QueryTickers, latest_filing_date \in FilingDates, av \in RefreshPayloads :
           refresh' = [refresh EXCEPT
               ![p].fetched =
                   IF NeedRefresh(get_cached_income(durable.income, ticker), latest_filing_date)
                   THEN fetch_annual_net_income(ticker, api_key, av, ratesCache, now,
                                                <<FxFailure>>).records
                   ELSE None,
               ![p].pc =
                   IF NeedRefresh(get_cached_income(durable.income, ticker), latest_filing_date)
                   THEN "fetched" ELSE "done"]
    /\ UNCHANGED <<income, balance, constituents, durable, api_key, ratesCache, now, fetching, last>>

\* save_income up to conn.commit(): the DELETE and the INSERTs in the
\* connection's transaction.  An INSERT that violates UNIQUE raises
\* IntegrityError and leaves the transaction open; with the other caller's
\* transaction open the DELETE raises OperationalError once the timeout elapses
RefreshWrite(p) ==
    /\ refresh[p].pc = "fetched"
    /\ \E ticker \in QueryTickers :
           refresh' = [refresh EXCEPT
               ![p].view =
                   IF refresh[3 - p].pc \in {"written", "IntegrityError"} THEN {}
                   ELSE save_income(durable.income, ticker, Get(refresh[p].fetched),
                                    Today(now)).table,
               ![p].pc =
                   IF refresh[3 - p].pc \in {"written", "IntegrityError"}
                   THEN "OperationalError"
                   ELSE IF save_income(durable.income, ticker, Get(refresh[p].fetched),
                                       Today(now)).raised
                   THEN "IntegrityError" ELSE "written"]
    /\ UNCHANGED <<income, balance, constituents, durable, api_key, ratesCache, now, fetching, last>>

\* conn.commit() of save_income: the transaction's rows become the file's
RefreshCommit(p) ==
    /\ refresh[p].pc = "written"
    /\ durable' = [durable EXCEPT !.income = refresh[p].view]
    /\ refresh' = [refresh EXCEPT ![p].pc = "done"]
    /\ UNCHANGED <<income, balance, constituents, api_key, ratesCache, now, fetching, last>>

NextConc == \E p \in 1..2 : RefreshFetch(p) \/ RefreshWrite(p) \/ RefreshCommit(p)

SpecConc == InitStore /\ [][NextConc]_vars

----------------------------------------------------------------------------
(* The calculators and get_market_cap, called directly *)

\* get_market_cap(ticker); the OVERVIEW endpoint answers only when asked
GetMarketCap ==
    \E ticker \in QueryTickers :
    \E yf \in {YfRaise, YfInfo(FALSE, None), YfInfo(TRUE, None), YfInfo(TRUE, Some(200))} :
    \E ov \in IF api_key /\ IsNone(yf.value)
              THEN {OvFailure, OvJson(FMissing), OvJson(FNull), OvJson(FStr(sEmpty)),
                    OvJson(FStr(sNoneWord)), OvJson(FStr(NumStr(140))),
                    OvJson(FStr(<<120>>))}
              ELSE {OvFailure} :
    \E r \in {get_market_cap(ticker, api_key, yf, ov)} :
    /\ last' = [NoCall EXCEPT !.seq = 1 - last.seq, !.op = "get_market_cap",
                              !.ticker = ticker, !.yf = yf, !.ov = ov,
                              !.yf_requests = r.yf_requests,
                              !.ov_requests = r.ov_requests, !.result = r.value]
    /\ UNCHANGED <<income, balance, constituents, durable, api_key, ratesCache, now,
                   refresh, fetching>>

\* calculate_7year_avg_pe(income_records, market_cap) on series sorted by
\* fiscal year descending: 6, 7 or 9 records from 2024 down, the years
\* shifted by shape[2] from position shape[1] on (a gap, or a year twice),
\* the first seven net incomes from a pattern, the later ones all `older`
Calculate7YearAvgPe ==
    \E n \in {6, 7, 9}, shape \in {<<2, 0>>, <<4, 1>>, <<7, 1>>, <<8, 2>>, <<3, -1>>} :
    \E pattern \in {<<100, 90, 80, 100, 110, 120, 100>>, <<3, 0, 0, 0, 0, 0, 0>>,
                    <<0, 0, 0, 0, 0, 0, 0>>, <<100, -100, 0, 0, 0, 0, 0>>,
                    <<-50, -50, -50, -50, -50, -50, 20>>} :
    \E older \in {1000, -1000}, market_cap \in {2000, 7} :
    \E income_records \in {[i \in 1..n |->
                              IncomeRecord(<<65, 66>>,
                                           2025 - i - (IF i >= shape[1] THEN shape[2] ELSE 0),
                                           IF i <= 7 THEN pattern[i] ELSE older)]} :
    /\ last' = [NoCall EXCEPT !.seq = 1 - last.seq, !.op = "calculate_7year_avg_pe",
                              !.records = Some(income_records),
                              !.market_cap = Some(market_cap),
                              !.result = calculate_7year_avg_pe(income_records, market_cap)]
    /\ UNCHANGED <<income, balance, constituents, durable, api_key, ratesCache, now,
                   refresh, fetching>>

\* calculate_asset_valuation(record, market_cap)
CalculateAssetValuation ==
    \E total_assets \in {100, 0}, total_liabilities \in {40, 150} :
    \E total_current_assets \in {30, 40, 200}, goodwill \in {0, 60} :
    \E intangible_assets \in {0, 5}, market_cap \in {200, 0, 90} :
    \E record \in {BalanceSheetRecord(<<65, 66>>, 2024, total_assets, total_liabilities,
                                      total_current_assets, goodwill, intangible_assets)} :
    /\ last' = [NoCall EXCEPT !.seq = 1 - last.seq, !.op = "calculate_asset_valuation",
                              !.records = Some(record),
                              !.market_cap = Some(market_cap),
                              !.result = Some(calculate_asset_valuation(record, market_cap))]
    /\ UNCHANGED <<income, balance, constituents, durable, api_key, ratesCache, now,
                   refresh, fetching>>

\* f"{x:.1f}" of x = (dollars + cents / 100) / (10 * tenth): the tenths are
\* rounded to the nearest, a tie to the even one
OneDecimal(dollars, cents, tenth) ==
    LET t == (dollars \div tenth)
             + (IF \/ 2 * (dollars % tenth) > tenth
                   \/ /\ 2 * (dollars % tenth) = tenth
                      /\ (cents > 0 \/ (dollars \div tenth) % 2 = 1)
                THEN 1 ELSE 0)
    IN  NatStr(t \div 10) \o <<46, Digit(t % 10)>>

\* (thousands from 1_000 on)
format_currency_thousands_from_1000(amount) ==
    (IF amount.negative /\ (amount.dollars > 0 \/ amount.cents > 0) THEN <<45>> ELSE << >>)
    \o <<36>>
    \o (IF amount.dollars >= 1000000000
        THEN OneDecimal(amount.dollars, amount.cents, 100000000) \o <<66>>
        ELSE IF amount.dollars >= 1000000
        THEN OneDecimal(amount.dollars, amount.cents, 100000) \o <<77>>
        ELSE IF amount.dollars >= 1000
        THEN OneDecimal(amount.dollars, amount.cents, 100) \o <<75>>
        ELSE NatStr(amount.dollars))

\* format_currency(amount), the amount given as its sign and the dollars and
\* cents of its magnitude; '-' is 45, '$' 36, 'B' 66, 'M' 77, 'K' 75
format_currency(amount) ==
    (IF amount.negative /\ (amount.dollars > 0 \/ amount.cents > 0) THEN <<45>> ELSE << >>)
    \o <<36>>
    \o (IF amount.dollars >= 1000000000
        THEN OneDecimal(amount.dollars, amount.cents, 100000000) \o <<66>>
        ELSE IF amount.dollars >= 1000000
        THEN OneDecimal(amount.dollars, amount.cents, 100000) \o <<77>>
        ELSE IF amount.dollars >= 10000
        THEN OneDecimal(amount.dollars, amount.cents, 100) \o <<75>>
        ELSE NatStr(amount.dollars))

\* format_currency(amount)
FormatCurrency ==
    \E negative \in BOOLEAN, cents \in {0, 99} :
    \E dollars \in {0, 5000, 9999, 10000, 50000, 999949, 999999, 1000000, 12500000,
                    500000000, 999999999, 1000000000, 1234000000, 1250000000,
                    1260000000, 2000000000} :
    \E amount \in {[negative |-> negative, dollars |-> dollars, cents |-> cents]} :
    /\ last' = [NoCall EXCEPT !.seq = 1 - last.seq, !.op = "format_currency",
                              !.money = amount,
                              !.result = Some(format_currency(amount))]
    /\ UNCHANGED <<income, balance, constituents, durable, api_key, ratesCache, now,
                   refresh, fetching>>

NextCalc == GetMarketCap \/ Calculate7YearAvgPe \/ CalculateAssetValuation \/ FormatCurrency

SpecCalc == Init /\ [][NextCalc]_vars

----------------------------------------------------------------------------
(* sec_edgar.py: get_cik_from_ticker, get_recent_filings *)

\* What company_tickers.json answers: the request raises, or a JSON object
\* whose values are {cik_str, ticker} entries
TickersFailure == [kind |-> "error", entries |-> {}]

TickersJson(entries) == [kind |-> "json", entries |-> entries]

\* What the submissions endpoint answers: the request raises, or JSON with or
\* without filings.recent, whose parallel arrays form, accessionNumber,
\* filingDate and primaryDocument are kept as one sequence of entries
SubmissionsFailure == [kind |-> "error", has_filings |-> FALSE, recent |-> << >>]

SubmissionsJson(has_filings, recent) ==
    [kind |-> "json", has_filings |-> has_filings, recent |-> recent]

\* get_cik_from_ticker: str(entry["cik_str"]) of the entry of ticker.upper()
get_cik_from_ticker(ticker, company_tickers) ==
    IF /\ company_tickers.kind = "json"
       /\ \E e \in company_tickers.entries : e.ticker = Upper(ticker)
    THEN Some(NatStr((CHOOSE e \in company_tickers.entries :
                          e.ticker = Upper(ticker)).cik_str))
    ELSE None

SECFilingRecord(ticker, form_type, filing_date, filing_url) ==
    [ticker |-> ticker, form_type |-> form_type, filing_date |-> filing_date,
     filing_url |-> filing_url]

\* the parts of f".../edgar/data/{cik}/{accession}/{primary_doc}" that vary;
\* accession is accessionNumber.replace("-", "") ('-' is 45)
FilingUrl(cik, entry) ==
    <<cik, SelectSeq(entry.accessionNumber, LAMBDA c : c # 45), entry.primaryDocument>>

\* (the annual filing replaced by every later 10-K)
FilingsStepLastAnnual(st, cik, ticker_upper, entry) ==
    IF entry.form = "10-Q" /\ Len(st.quarterly) < 4
    THEN [st EXCEPT !.quarterly =
              Append(@, SECFilingRecord(ticker_upper, "10-Q", entry.filingDate,
                                        FilingUrl(cik, entry)))]
    ELSE IF entry.form = "10-K"
    THEN [st EXCEPT !.annual =
              Some(SECFilingRecord(ticker_upper, "10-K", entry.filingDate,
                                   FilingUrl(cik, entry)))]
    ELSE st

\* one pass of "for i, form in enumerate(forms)"
FilingsStep(st, cik, ticker_upper, entry) ==
    IF entry.form = "10-Q" /\ Len(st.quarterly) < 4
    THEN [st EXCEPT !.quarterly =
              Append(@, SECFilingRecord(ticker_upper, "10-Q", entry.filingDate,
                                        FilingUrl(cik, entry)))]
    ELSE IF entry.form = "10-K" /\ IsNone(st.annual)
    THEN [st EXCEPT !.annual =
              Some(SECFilingRecord(ticker_upper, "10-K", entry.filingDate,
                                   FilingUrl(cik, entry)))]
    ELSE st

\* the loop, left early once four quarterly filings and an annual one are held
RECURSIVE FilingsLoop(_, _, _, _)
FilingsLoop(recent, cik, ticker_upper, st) ==
    IF recent = << >> \/ (Len(st.quarterly) = 4 /\ ~IsNone(st.annual)) THEN st
    ELSE FilingsLoop(Tail(recent), cik, ticker_upper,
                     FilingsStep(st, cik, ticker_upper, Head(recent)))

\* get_recent_filings after the CIK lookup: Optional RecentFilings
RecentFilings(cik, ticker_upper, submissions) ==
    IF IsNone(cik) \/ submissions.kind # "json" THEN None
    ELSE Some(FilingsLoop(IF submissions.has_filings THEN submissions.recent ELSE << >>,
                          Get(cik), ticker_upper, [quarterly |-> << >>, annual |-> None]))

get_recent_filings(ticker, company_tickers, submissions) ==
    RecentFilings(get_cik_from_ticker(ticker, company_tickers), Upper(ticker), submissions)

\* the i-th entry of a filings list of the given forms
FilingEntry(forms, i) ==
    [form |-> forms[i], accessionNumber |-> <<48, 45, Digit(i), 45, 55>>,
     filingDate |-> IsoFormat(2024, 12 - i, 15), primaryDocument |-> <<100, Digit(i)>>]

\* get_recent_filings(ticker); the submissions endpoint answers only when the
\* CIK was found.  The lists have up to 4 forms, or are one of three longer
\* ones with five 10-Q or two 10-K
GetRecentFilings ==
    \E ticker \in QueryTickers :
    \E company_tickers \in {TickersFailure,
                            TickersJson({[ticker |-> <<67, 68>>, cik_str |-> 5]}),
                            TickersJson({[ticker |-> <<67, 68>>, cik_str |-> 5],
                                         [ticker |-> <<65, 66>>, cik_str |-> 320193]})} :
    \E forms \in UNION {[1..n -> {"10-Q", "10-K", "8-K"}] : n \in 0..4}
                 \cup {<<"10-Q", "10-Q", "8-K", "10-Q", "10-Q", "10-Q", "10-K">>,
                       <<"10-K", "10-Q", "10-Q", "10-Q", "10-Q", "10-Q", "10-K">>,
                       <<"10-Q", "10-Q", "10-Q", "10-Q", "10-Q">>} :
    \E submissions \in IF IsNone(get_cik_from_ticker(ticker, company_tickers))
                       THEN {SubmissionsFailure}
                       ELSE {SubmissionsFailure,
                             SubmissionsJson(forms # << >>,
                                             [i \in 1..Len(forms) |-> FilingEntry(forms, i)])} :
    /\ last' = [NoCall EXCEPT !.seq = 1 - last.seq, !.op = "get_recent_filings",
                              !.ticker = ticker,
                              !.company_tickers = company_tickers,
                              !.submissions = submissions,
                              !.result = get_recent_filings(ticker, company_tickers,
                                                            submissions)]
    /\ UNCHANGED <<income, balance, constituents, durable, api_key, ratesCache, now,
                   refresh, fetching>>

NextEdgar == GetRecentFilings

SpecEdgar == Init /\ [][NextEdgar]_vars

----------------------------------------------------------------------------
(* fetch_annual_net_income entry by entry.  get_exchange_rates reads         *)
(* time.time() anew for every entry, so the instant at which a cached table  *)
(* expires can fall between two entries of one call: TickHalfWindow between  *)
(* two steps of the loop is that instant passing.                            *)

\* the request answered with annual reports in a currency other than USD:
\* the loop starts on their net incomes.  tables keeps, for every record
\* converted, the rate table it was converted with
FetchLoopBegins ==
    /\ fetching.pc # "converting"
    /\ \E currency \in {Some(sDKK), Some(sEUR)}, pending \in {<<8, 4>>, <<8, 4, 12>>} :
           fetching' = [pc |-> "converting", currency |-> currency, pending |-> pending,
                        records |-> << >>, tables |-> << >>, result |-> None]
    /\ UNCHANGED <<income, balance, constituents, durable, api_key, ratesCache, now, refresh,
                   last>>

\* the loop after convert_to_usd returned conv for the entry at hand:
\* "return None" on a failed conversion, the record appended otherwise, and
\* the records returned after the last entry
FetchLoopAfterConvert(f, conv) ==
    IF IsNone(conv.value)
    THEN [f EXCEPT !.pc = "returned", !.result = None]
    ELSE [f EXCEPT !.pc = IF Len(f.pending) = 1 THEN "returned" ELSE "converting",
                   !.pending = Tail(f.pending),
                   !.records = Append(f.records, Get(conv.value)),
                   !.tables = Append(f.tables, Get(conv.cache).rates),
                   !.result = IF Len(f.pending) = 1
                              THEN Some(Append(f.records, Get(conv.value)))
                              ELSE None]

\* one pass of "for entry in annual_reports"; the rate provider answers only
\* when the cache is absent or expired at that pass
FetchLoopConverts ==
    /\ fetching.pc = "converting"
    /\ \E fx \in (IF CacheFresh(ratesCache, now) THEN {FxFailure}
                  ELSE {FxFailure, FxJson(TRUE, {<<sDKK, 2>>, <<sEUR, 1>>}),
                        FxJson(TRUE, {<<sDKK, 4>>, <<sEUR, 1>>})}) :
       \E conv \in {convert_to_usd(Head(fetching.pending), fetching.currency,
                                   ratesCache, now, fx)} :
           /\ ratesCache' = conv.cache
           /\ fetching' = FetchLoopAfterConvert(fetching, conv)
    /\ UNCHANGED <<income, balance, constituents, durable, api_key, now, refresh, last>>

NextLoop == FetchLoopBegins \/ FetchLoopConverts \/ TickHalfWindow

SpecLoop == InitStore /\ [][NextLoop]_vars

----------------------------------------------------------------------------
(* bot.py: _do_sync, for the S&P 500 scraper *)

\* "for record in records: insert_constituent(conn, record)"
RECURSIVE InsertAll(_, _)
InsertAll(table, records) ==
    IF records = << >> THEN table
    ELSE InsertAll(insert_constituent(table, Head(records)), Tail(records))

MaxSyncRows == 5

\* What SP500Scraper.fetch returns on successive days: AB (added 1982-11-30)
\* and CD (no added date known) are current; later AB is reported as removed
\* on 2020-06-01, with or without its added date
Scrapes ==
    { << ConstituentRecord(<<65, 66>>, "sp500", Some(IsoFormat(1982, 11, 30)), None),
         ConstituentRecord(<<67, 68>>, "sp500", None, None) >>,
      << ConstituentRecord(<<67, 68>>, "sp500", None, None),
         ConstituentRecord(<<65, 66>>, "sp500", Some(IsoFormat(1982, 11, 30)),
                           Some(IsoFormat(2020, 6, 1))) >>,
      << ConstituentRecord(<<67, 68>>, "sp500", None, None),
         ConstituentRecord(<<65, 66>>, "sp500", None, Some(IsoFormat(2020, 6, 1))) >> }

\* _do_sync on a connection of its own: the scrape raises and nothing is
\* inserted, or every record is inserted and committed.  last.records keeps
\* the latest scrape that succeeded
DoSync ==
    \E scrape \in {None} \cup {Some(records) : records \in Scrapes} :
    /\ Len(durable.constituents) + (IF IsNone(scrape) THEN 0 ELSE Len(Get(scrape)))
           <= MaxSyncRows
    /\ constituents' = IF IsNone(scrape) THEN durable.constituents
                       ELSE InsertAll(durable.constituents, Get(scrape))
    /\ durable' = [durable EXCEPT !.constituents = constituents']
    /\ last' = [NoCall EXCEPT !.seq = 1 - last.seq, !.op = "_do_sync",
                              !.raised = IsNone(scrape),
                              !.commit = ~IsNone(scrape),
                              !.records = IF ~IsNone(scrape) THEN scrape
                                          ELSE IF last.op = "_do_sync" THEN last.records
                                          ELSE None]
    /\ UNCHANGED <<income, balance, api_key, ratesCache, now, refresh, fetching>>

NextSync == DoSync

SpecSync == Init /\ [][NextSync]_vars

----------------------------------------------------------------------------
(* Properties.  A step of a call is told by last'.op; the state before it   *)
(* is read through the unprimed variables.                                  *)

IsQuery(op) == op \in {"get_7year_pe", "get_asset_valuation"}

\* the ticker keys the store can hold rows of
StoreKeys == {<<65, 66>>, <<67>>}

\* no lowercase ASCII letter
IsUpper(str) == \A i \in 1..Len(str) : str[i] \notin 97..122

DistinctYears(records) ==
    \A i, j \in 1..Len(records) :
        i # j => records[i].fiscal_year # records[j].fiscal_year

StrictlyDescending(records) ==
    \A i \in 1..(Len(records) - 1) : records[i].fiscal_year > records[i + 1].fiscal_year

\* the refresh condition: no cached series, or a signal strictly greater
\* than the cached lastUpdated
RefreshDue(cached, signal) ==
    \/ IsNone(cached)
    \/ ~IsNone(signal) /\ StrGreater(Get(signal), Get(cached).last_updated)

\* a query step that found the series cached_before calls the adapter iff the
\* refresh is due, and otherwise reuses cached_before with no request and no
\* change of the store
RefreshesIffDue(cached_before) ==
    /\ last'.adapter_calls =
           IF RefreshDue(cached_before, last'.latest_filing_date) THEN 1 ELSE 0
    /\ last'.adapter_calls = 0 =>
           /\ last'.http = 0
           /\ last'.fx_requests = 0
           /\ last'.evaluated = cached_before
           /\ income' = income /\ balance' = balance /\ durable' = durable

\* C1 as stated: every orchestrator query, get_7year_pe or get_asset_valuation,
\* invokes the adapter iff no series is cached or the signal is strictly
\* greater than the cached lastUpdated
C1_RefreshIffDueAnyQuery ==
    [][ /\ last'.op = "get_7year_pe" =>
               RefreshesIffDue(get_cached_income(income, last'.ticker))
        /\ last'.op = "get_asset_valuation" =>
               RefreshesIffDue(get_cached_balance_sheet(balance, last'.ticker)) ]_vars

\* C1 amended: the same for every get_7year_pe query and for every
\* get_asset_valuation query that supplies a market value
C1_RefreshIffDue ==
    [][ /\ last'.op = "get_7year_pe" =>
               RefreshesIffDue(get_cached_income(income, last'.ticker))
        /\ last'.op = "get_asset_valuation" /\ ~IsNone(last'.market_cap) =>
               RefreshesIffDue(get_cached_balance_sheet(balance, last'.ticker)) ]_vars

\* a query whose signal equals the cached lastUpdated reused the cache
C1_Witness ==
    /\ IsQuery(last.op)
    /\ ~IsNone(last.evaluated)
    /\ last.latest_filing_date = Some(Get(last.evaluated).last_updated)
    /\ last.adapter_calls = 0

\* the series a cached value holds
Series(cached) ==
    IF "annual_income" \in DOMAIN cached THEN cached.annual_income
    ELSE cached.annual_records

\* what the store returns now for the ticker of the last query
CachedNow ==
    IF last.op = "get_7year_pe" THEN get_cached_income(income, last.ticker)
    ELSE get_cached_balance_sheet(balance, last.ticker)

\* C2: when the refresh is required and the adapter succeeds, the records are
\* saved stamped with today's date, and the series evaluated is the re-read
\* one: exactly the adapter's records, lastUpdated today
C2_SaveThenReread ==
    (IsQuery(last.op) /\ last.adapter_calls = 1 /\ ~IsNone(last.fetched)) =>
        /\ ~last.raised
        /\ last.commit
        /\ ~IsNone(last.evaluated)
        /\ last.evaluated = CachedNow
        /\ Series(Get(last.evaluated)) = Get(last.fetched)
        /\ Get(last.evaluated).last_updated = Today(now)

\* C3: when the refresh is required and the adapter returns absent, the store
\* (the connection's view and the committed tables) is unchanged and the
\* query is answered from the series cached before the call
C3_AdapterFailureKeepsCache ==
    [][ (IsQuery(last'.op) /\ last'.adapter_calls = 1 /\ IsNone(last'.fetched)) =>
            /\ income' = income /\ balance' = balance /\ durable' = durable
            /\ ~last'.raised
            /\ last'.op = "get_7year_pe" =>
                   /\ last'.evaluated = get_cached_income(income, last'.ticker)
                   /\ IsNone(last'.evaluated) => IsNone(last'.result)
            /\ last'.op = "get_asset_valuation" =>
                   /\ last'.evaluated = get_cached_balance_sheet(balance, last'.ticker)
                   /\ last'.result =
                          IF IsNone(last'.evaluated) THEN None
                          ELSE Some(calculate_asset_valuation(
                                        Get(last'.evaluated).annual_records[1],
                                        Get(last'.market_cap))) ]_vars

\* a refresh whose adapter failed was answered from the stale series
C3_Witness ==
    /\ last.op = "get_7year_pe"
    /\ last.adapter_calls = 1
    /\ IsNone(last.fetched)
    /\ ~IsNone(last.evaluated)
    /\ ~IsNone(last.result)

\* the series save(ticker, records, last_updated) is to leave: the records
\* under the uppercase ticker, by fiscal year descending
ExpectedIncome(ticker, records, last_updated) ==
    Some([ticker |-> Upper(ticker), last_updated |-> last_updated,
          annual_income |->
              SortDesc([i \in 1..Len(records) |->
                           IncomeRecord(Upper(ticker), records[i].fiscal_year,
                                        records[i].net_income)])])

ExpectedBalance(ticker, records, last_updated) ==
    Some([ticker |-> Upper(ticker), last_updated |-> last_updated,
          annual_records |->
              SortDesc([i \in 1..Len(records) |->
                           [records[i] EXCEPT !.ticker = Upper(ticker)]])])

\* after the save in `last`, getCached returns that call's records and
\* lastUpdated, and the ticker has as many rows as the call has records
ReflectsLastSave ==
    /\ last.op = "save_income" =>
           /\ get_cached_income(income, last.ticker)
                  = ExpectedIncome(last.ticker, Get(last.records), Get(last.last_updated))
           /\ Cardinality(SelectWhereTicker(income, Upper(last.ticker)))
                  = Len(Get(last.records))
    /\ last.op = "save_balance_sheet" =>
           /\ get_cached_balance_sheet(balance, last.ticker)
                  = ExpectedBalance(last.ticker, Get(last.records), Get(last.last_updated))
           /\ Cardinality(SelectWhereTicker(balance, Upper(last.ticker)))
                  = Len(Get(last.records))

\* C4 as stated: after any save, the second of two included, getCached returns
\* exactly that call's records and lastUpdated
C4_SaveReplacesAny == ReflectsLastSave

\* C4 amended: the same when the call's records have distinct fiscal years
C4_SaveReplaces ==
    (~IsNone(last.records) /\ DistinctYears(Get(last.records))) => ReflectsLastSave

\* a save with distinct years replaced rows the ticker already had
C4_Witness ==
    /\ last.op \in {"save_income", "save_balance_sheet"}
    /\ last.replaced
    /\ DistinctYears(Get(last.records))
    /\ Len(Get(last.records)) = 1

\* C5: save is atomic: after a save step, failed or not, getCached returns
\* the complete previous series or the complete new one
C5_SaveAtomic ==
    [][ /\ last'.op = "save_income" =>
               get_cached_income(income', last'.ticker) \in
                   { get_cached_income(income, last'.ticker),
                     ExpectedIncome(last'.ticker, Get(last'.records),
                                    Get(last'.last_updated)) }
        /\ last'.op = "save_balance_sheet" =>
               get_cached_balance_sheet(balance', last'.ticker) \in
                   { get_cached_balance_sheet(balance, last'.ticker),
                     ExpectedBalance(last'.ticker, Get(last'.records),
                                     Get(last'.last_updated)) } ]_vars

\* C6: getCached is absent exactly when the table holds no row of the ticker;
\* after a save of records with distinct fiscal years it returns the same
\* records by fiscal year strictly descending, with the lastUpdated saved
C6_GetCachedSorted ==
    /\ \A t \in StoreKeys :
           /\ IsNone(get_cached_income(income, t)) <=> ~\E r \in income : r.ticker = t
           /\ IsNone(get_cached_balance_sheet(balance, t)) <=> ~\E r \in balance : r.ticker = t
    /\ (last.op = "save_income" /\ DistinctYears(Get(last.records))) =>
           /\ get_cached_income(income, last.ticker)
                  = ExpectedIncome(last.ticker, Get(last.records), Get(last.last_updated))
           /\ StrictlyDescending(Get(get_cached_income(income, last.ticker)).annual_income)
    /\ (last.op = "save_balance_sheet" /\ DistinctYears(Get(last.records))) =>
           /\ get_cached_balance_sheet(balance, last.ticker)
                  = ExpectedBalance(last.ticker, Get(last.records), Get(last.last_updated))
           /\ StrictlyDescending(
                  Get(get_cached_balance_sheet(balance, last.ticker)).annual_records)

\* records saved in ascending order were returned
C6_Witness ==
    /\ last.op = "save_income"
    /\ Len(Get(last.records)) = 2
    /\ Get(last.records)[1].fiscal_year < Get(last.records)[2].fiscal_year
    /\ Len(Get(get_cached_income(income, last.ticker)).annual_income) = 2

\* C7: tickers are uppercased at every store boundary: every stored row
\* carries the uppercase ticker, and a row stored under one spelling is found
\* under any other
C7_TickersUppercased ==
    /\ \A r \in income \cup balance : IsUpper(r.ticker)
    /\ \A i \in 1..Len(constituents) : IsUpper(constituents[i].ticker)
    /\ \A sp \in TickerSpellings :
           /\ get_cached_income(income, sp) = get_cached_income(income, <<65, 66>>)
           /\ get_cached_balance_sheet(balance, sp)
                  = get_cached_balance_sheet(balance, <<65, 66>>)
    /\ last.op = "insert_constituent" =>
           \A sp \in TickerSpellings : get_stock_memberships(constituents, sp) # {}

\* C8: each metric table, in the connection's view and as committed, holds at
\* most one row per (ticker, fiscal year)
OneRowPerYear(table) ==
    \A r, q \in table : (r.ticker = q.ticker /\ r.fiscal_year = q.fiscal_year) => r = q

C8_OneRowPerTickerYear ==
    /\ OneRowPerYear(income) /\ OneRowPerYear(balance)
    /\ OneRowPerYear(durable.income) /\ OneRowPerYear(durable.balance)

\* a save that repeats a fiscal year was stopped by the constraint
C8_Witness ==
    /\ last.op = "save_income"
    /\ last.raised
    /\ ~DistinctYears(Get(last.records))
    /\ income # {}

\* C9: all rows of one ticker in one metric table carry the same lastUpdated,
\* which is the one getCached returns
SharedLastUpdated(table) ==
    \A r, q \in table : r.ticker = q.ticker => r.last_updated = q.last_updated

C9_SharedLastUpdated ==
    /\ SharedLastUpdated(income) /\ SharedLastUpdated(balance)
    /\ SharedLastUpdated(durable.income) /\ SharedLastUpdated(durable.balance)
    /\ \A r \in income :
           Get(get_cached_income(income, r.ticker)).last_updated = r.last_updated
    /\ \A r \in balance :
           Get(get_cached_balance_sheet(balance, r.ticker)).last_updated = r.last_updated

\* a ticker that had rows was saved again with two rows
C9_Witness ==
    /\ last.op \in {"save_income", "save_balance_sheet"}
    /\ last.replaced
    /\ ~last.raised
    /\ Len(Get(last.records)) = 2

\* C10: get_7year_pe and get_asset_valuation end by returning a result or
\* absent, never by raising
C10_NeverRaises == IsQuery(last.op) => ~last.raised

\* the age of a rate cache at time t is below the 24-hour window
WithinWindow(cache, t) ==
    ~IsNone(cache) /\ t - Get(cache).timestamp < 24 * 60 * 60

\* the provider's answer is a usable table
AnswerUsable(answer) == answer.kind = "json" /\ answer.success /\ answer.rates # {}

\* the rates a pair set lists for a currency
RatesOf(rates, currency) == {p[2] : p \in {q \in rates : q[1] = currency}}

IsConversion(call) == call.op = "convert_to_usd" /\ call.currency # Some(sUSD)

\* C12: a conversion from a currency with a strictly positive rate r in the
\* current rate table returns amount / r; a conversion from USD returns the
\* amount, issues no request and leaves the rate cache as it is
C12_ConvertDividesByRate ==
    [][ /\ (IsConversion(last') /\ WithinWindow(ratesCache', now')) =>
               \A r \in RatesOf(Get(ratesCache').rates, Get(last'.currency)) :
                   r > 0 => /\ ~IsNone(last'.result)
                            /\ Get(last'.result) * r = last'.amount
        /\ (last'.op = "convert_to_usd" /\ last'.currency = Some(sUSD)) =>
               /\ last'.result = Some(last'.amount)
               /\ last'.fx_requests = 0
               /\ ratesCache' = ratesCache ]_vars

\* 8 DKK at 2 DKK per USD came to 4 USD
C12_Witness ==
    /\ last.op = "convert_to_usd"
    /\ last.currency = Some(sDKK)
    /\ last.amount = 8
    /\ ~IsNone(ratesCache)
    /\ <<sDKK, 2>> \in Get(ratesCache).rates
    /\ last.result = Some(4)

\* C13: a conversion from a non-USD currency returns absent exactly when the
\* rate table cannot be obtained, the currency is not a key of it, or its
\* rate is zero or negative
C13_ConvertAbsentOnFailure ==
    IsConversion(last) =>
        (IsNone(last.result) <=>
            \/ ~WithinWindow(ratesCache, now)
            \/ RatesOf(Get(ratesCache).rates, Get(last.currency)) = {}
            \/ \E r \in RatesOf(Get(ratesCache).rates, Get(last.currency)) : r <= 0)

\* a conversion at a negative rate returned absent
C13_Witness ==
    /\ IsConversion(last)
    /\ WithinWindow(ratesCache, now)
    /\ \E r \in RatesOf(Get(ratesCache).rates, Get(last.currency)) : r < 0
    /\ IsNone(last.result)

IsRateRequest(call) == call.op = "get_exchange_rates" \/ IsConversion(call)

\* C14: a rate request made while the cache is younger than 24 hours returns
\* the cached table and issues no request; a request made with the cache
\* absent or 24 hours old or older issues one, and a successful one replaces
\* the cache with the fetched table stamped with the current time
C14_CacheReusedWithinWindow ==
    [][ IsRateRequest(last') =>
            /\ WithinWindow(ratesCache, now) =>
                   /\ last'.fx_requests = 0
                   /\ ratesCache' = ratesCache
                   /\ last'.op = "get_exchange_rates" =>
                          last'.result = Some(Get(ratesCache).rates)
            /\ ~WithinWindow(ratesCache, now) =>
                   /\ last'.fx_requests = 1
                   /\ AnswerUsable(last'.answer) =>
                          /\ ratesCache' = Some([rates |-> last'.answer.rates,
                                                 timestamp |-> now])
                          /\ last'.op = "get_exchange_rates" =>
                                 last'.result = Some(last'.answer.rates) ]_vars

\* a cache exactly 24 hours old was replaced by a fetch
C14_Witness ==
    /\ last.op = "get_exchange_rates"
    /\ last.had_cache
    /\ last.fx_requests = 1
    /\ now = 24 * 60 * 60
    /\ ~IsNone(ratesCache)
    /\ Get(ratesCache).timestamp = now

\* C15: with the cache expired, a conversion makes a fetch attempt; when the
\* attempt fails it returns absent and the expired table stays unserved, and
\* when it succeeds the conversion is made at the fetched rate
C15_ExpiredCacheNeverServed ==
    [][ (IsConversion(last') /\ ~IsNone(ratesCache) /\ ~WithinWindow(ratesCache, now)) =>
            /\ last'.fx_requests = 1
            /\ ~AnswerUsable(last'.answer) =>
                   /\ IsNone(last'.result)
                   /\ ratesCache' = ratesCache
            /\ AnswerUsable(last'.answer) =>
                   \A r \in RatesOf(last'.answer.rates, Get(last'.currency)) :
                       r > 0 => last'.result = Some(last'.amount \div r) ]_vars

\* a conversion found an expired table listing a positive rate, failed to
\* refresh it and returned absent
C15_Witness ==
    /\ IsConversion(last)
    /\ last.had_cache
    /\ ~IsNone(ratesCache)
    /\ ~WithinWindow(ratesCache, now)
    /\ \E r \in RatesOf(Get(ratesCache).rates, Get(last.currency)) : r > 0
    /\ last.fx_requests = 1
    /\ IsNone(last.result)

\* C16: the rate cache is absent at startup, becomes present only through a
\* successful fetch, and is absent after clear_exchange_rate_cache, so that
\* the next rate request fetches whatever the age of the cleared table
C16_CacheLifecycle ==
    /\ last.op = "none" => IsNone(ratesCache)
    /\ [][ /\ (IsNone(ratesCache) /\ ~IsNone(ratesCache')) =>
                  /\ IsRateRequest(last')
                  /\ last'.fx_requests = 1
                  /\ AnswerUsable(last'.answer)
                  /\ ratesCache' = Some([rates |-> last'.answer.rates, timestamp |-> now])
           /\ last'.op = "clear_exchange_rate_cache" => IsNone(ratesCache')
           /\ (IsNone(ratesCache) /\ IsRateRequest(last')) => last'.fx_requests = 1 ]_vars

\* a table younger than 24 hours was cleared
C16_Witness ==
    /\ last.op = "clear_exchange_rate_cache"
    /\ last.had_cache
    /\ IsNone(ratesCache)
    /\ now = 0

----------------------------------------------------------------------------
(* The adapters.  The properties read the payload of the call: what its     *)
(* members hold, not what the adapter made of them.                         *)

IsFetch(call) == call.op \in {"fetch_annual_net_income", "fetch_balance_sheet"}

\* the currency the first annual entry reports: USD when the member is
\* missing, none when it is null
PayloadCurrency(call) ==
    IF call.payload.annualReports[1].reportedCurrency.k = "missing" THEN Some(sUSD)
    ELSE IF call.payload.annualReports[1].reportedCurrency.k = "null" THEN None
    ELSE Some(call.payload.annualReports[1].reportedCurrency.s)

\* a fiscal date whose first four characters are a year
DateValid(f) == f.k = "str" /\ CanParseInt(Prefix(f.s, 4))

YearOf(f) == ParseInt(Prefix(f.s, 4))

\* a member that is missing, null, empty or the "None" sentinel
Defaulted(f) == f.k \in {"missing", "null"} \/ f.s \in {sEmpty, sNoneWord}

\* a member that is present and is no number
Unparseable(f) == ~Defaulted(f) /\ ~CanParseFloat(f.s)

\* the amount of a balance-sheet member: 0.0 unless it holds a number
AmountOf(f) == IF Defaulted(f) \/ Unparseable(f) THEN 0 ELSE ParseFloat(f.s)

\* the annual entries that yield a record
IncomeValidAt(call) ==
    {i \in 1..Len(call.payload.annualReports) :
        /\ DateValid(call.payload.annualReports[i].fiscalDateEnding)
        /\ ~Defaulted(call.payload.annualReports[i].netIncome)
        /\ ~Unparseable(call.payload.annualReports[i].netIncome)}

BalanceValidAt(call) ==
    {i \in 1..Len(call.payload.annualReports) :
        /\ DateValid(call.payload.annualReports[i].fiscalDateEnding)
        /\ ~Unparseable(call.payload.annualReports[i].totalAssets)
        /\ ~Unparseable(call.payload.annualReports[i].totalLiabilities)
        /\ ~Unparseable(call.payload.annualReports[i].totalCurrentAssets)}

ValidAt(call) ==
    IF call.op = "fetch_annual_net_income" THEN IncomeValidAt(call) ELSE BalanceValidAt(call)

\* the table lists a strictly positive rate for the currency
RateUsable(rates, currency) ==
    ~IsNone(currency) /\ \E r \in RatesOf(rates, Get(currency)) : r > 0

\* a conversion of the call fails: the rate table in force when the first
\* conversion is made (the cached one within the window `cache` was found
\* in at time t, else the provider's first answer) is unusable
AConversionFails(call, cache, t) ==
    /\ PayloadCurrency(call) # Some(sUSD)
    /\ ValidAt(call) # {}
    /\ IF WithinWindow(cache, t)
       THEN ~RateUsable(Get(cache).rates, PayloadCurrency(call))
       ELSE \/ ~AnswerUsable(call.answers[1])
            \/ ~RateUsable(call.answers[1].rates, PayloadCurrency(call))

\* an amount in USD at the rate of the table `cache` holds
InUsd(x, currency, cache) ==
    IF currency = Some(sUSD) THEN x
    ELSE x \div (CHOOSE r \in RatesOf(Get(cache).rates, Get(currency)) : TRUE)

\* the record entry i of the payload stands for, in USD
IncomeRecordOf(call, i, cache) ==
    IncomeRecord(Upper(call.ticker),
                 YearOf(call.payload.annualReports[i].fiscalDateEnding),
                 InUsd(ParseFloat(call.payload.annualReports[i].netIncome.s),
                       PayloadCurrency(call), cache))

BalanceRecordOf(call, i, cache) ==
    BalanceSheetRecord(Upper(call.ticker),
        YearOf(call.payload.annualReports[i].fiscalDateEnding),
        InUsd(AmountOf(call.payload.annualReports[i].totalAssets), PayloadCurrency(call), cache),
        InUsd(AmountOf(call.payload.annualReports[i].totalLiabilities), PayloadCurrency(call), cache),
        InUsd(AmountOf(call.payload.annualReports[i].totalCurrentAssets), PayloadCurrency(call), cache),
        InUsd(AmountOf(call.payload.annualReports[i].goodwill), PayloadCurrency(call), cache),
        InUsd(AmountOf(call.payload.annualReports[i].intangibleAssets), PayloadCurrency(call), cache))

RecordOf(call, i, cache) ==
    IF call.op = "fetch_annual_net_income" THEN IncomeRecordOf(call, i, cache)
    ELSE BalanceRecordOf(call, i, cache)

\* the call returned one record for each valid entry and no other
ReturnsValidEntries(call, cache) ==
    IF ValidAt(call) = {} THEN IsNone(call.result)
    ELSE /\ ~IsNone(call.result)
         /\ Len(Get(call.result)) = Cardinality(ValidAt(call))
         /\ \A i \in ValidAt(call) :
                \E k \in 1..Len(Get(call.result)) :
                    Get(call.result)[k] = RecordOf(call, i, cache)

\* C17: when the first annual entry reports another currency than USD, a
\* fetch whose conversion fails returns absent, also when later rate requests
\* of the same fetch succeed; a fetch that returns records returns every
\* monetary field of every record divided by the rate of the table in force
C17_ConversionAllOrNothing ==
    [][ (IsFetch(last') /\ PayloadCurrency(last') # Some(sUSD)) =>
            /\ AConversionFails(last', ratesCache, now) => IsNone(last'.result)
            /\ ~IsNone(last'.result) =>
                   /\ ~IsNone(ratesCache')
                   /\ RateUsable(Get(ratesCache').rates, PayloadCurrency(last'))
                   /\ ReturnsValidEntries(last', ratesCache') ]_vars

\* a balance-sheet fetch in DKK whose first rate request failed and whose
\* second succeeded returned absent
C17_Witness ==
    /\ last.op = "fetch_balance_sheet"
    /\ PayloadCurrency(last) = Some(sDKK)
    /\ last.fx_requests = 2
    /\ ~IsNone(ratesCache)
    /\ RateUsable(Get(ratesCache).rates, Some(sDKK))
    /\ IsNone(last.result)

\* C18: what an adapter returns is absent or a non-empty sequence in
\* descending order of fiscal year, and it is absent when no entry of the
\* response yields a record
C18_NonEmptyDescending ==
    IsFetch(last) =>
        /\ ~IsNone(last.result) =>
               /\ Len(Get(last.result)) >= 1
               /\ \A k \in 1..(Len(Get(last.result)) - 1) :
                      Get(last.result)[k].fiscal_year >= Get(last.result)[k + 1].fiscal_year
        /\ ValidAt(last) = {} => IsNone(last.result)

\* a response listing 2024 before 2025 was returned with 2025 first
C18_Witness ==
    /\ IsFetch(last)
    /\ Len(last.payload.annualReports) = 2
    /\ ValidAt(last) = {1, 2}
    /\ YearOf(last.payload.annualReports[1].fiscalDateEnding) = 2024
    /\ ~IsNone(last.result)
    /\ Get(last.result)[1].fiscal_year = 2025

\* C19: the income adapter, when no conversion fails, returns exactly one
\* record for each entry whose fiscal date and net income are usable: an
\* entry with either of them missing, null, empty, "None" or unparseable
\* yields no record, and the other years are returned
C19_IncomeDropsInvalidYears ==
    [][ (last'.op = "fetch_annual_net_income"
            /\ ~AConversionFails(last', ratesCache, now)) =>
            ReturnsValidEntries(last', ratesCache') ]_vars

\* the 2024 entry's net income was unusable and 2025 alone was returned
C19_Witness ==
    /\ last.op = "fetch_annual_net_income"
    /\ ValidAt(last) = {2}
    /\ DateValid(last.payload.annualReports[1].fiscalDateEnding)
    /\ ~IsNone(last.result)
    /\ Len(Get(last.result)) = 1
    /\ Get(last.result)[1].fiscal_year = 2025

----------------------------------------------------------------------------
(* Two refreshes at the same time *)

\* the caller has returned or raised
Finished(p) == refresh[p].pc \in {"done", "IntegrityError", "OperationalError"}

\* the file holds, for the ticker, exactly the records caller p fetched,
\* stamped with one lastUpdated
HoldsFetchOf(p) ==
    \E ticker \in QueryTickers :
        get_cached_income(durable.income, ticker)
            = ExpectedIncome(ticker, Get(refresh[p].fetched), Today(now))

\* C11: once two refreshes of one ticker that each fetched records have
\* finished, the store holds exactly the complete record set of one of the
\* two fetches
C11_ConcurrentRefreshKeepsOneFetch ==
    (Finished(1) /\ Finished(2) /\ ~IsNone(refresh[1].fetched) /\ ~IsNone(refresh[2].fetched))
        => (HoldsFetchOf(1) \/ HoldsFetchOf(2))

----------------------------------------------------------------------------
(* The queries and their providers *)

\* the step repeats the query of the step before it
SameQuery ==
    /\ IsQuery(last.op)
    /\ last'.op = last.op
    /\ last'.ticker = last.ticker
    /\ last'.market_cap = last.market_cap
    /\ last'.latest_filing_date = last.latest_filing_date

\* C22: one query calls the metric adapter at most once, the adapter issues
\* at most one request to Alpha Vantage, and no request to a provider follows
\* a failed one in the same query (the rate provider answers alike to every
\* request of a query, so a second rate request follows a failed first); the
\* query repeated after a failed refresh calls the adapter again
C22_NoRetryWithinQuery ==
    [][ IsQuery(last'.op) =>
            /\ last'.adapter_calls <= 1
            /\ last'.http <= 1
            /\ last'.fx_requests <= 1
            /\ (SameQuery /\ last.adapter_calls = 1 /\ IsNone(last.fetched) /\ ~last.raised)
                   => last'.adapter_calls = 1 ]_vars

\* C23: with no API key, a query that needs a refresh calls the adapter,
\* which returns absent with no request to Alpha Vantage or the rate
\* provider, and the store and the rate cache are left as they were
C23_NoKeyNoRequest ==
    [][ (IsQuery(last'.op) /\ ~api_key /\ last'.need_refresh) =>
            /\ last'.adapter_calls = 1
            /\ IsNone(last'.fetched)
            /\ last'.http = 0
            /\ last'.fx_requests = 0
            /\ income' = income /\ balance' = balance /\ durable' = durable
            /\ ratesCache' = ratesCache ]_vars

\* without a key, a query with a filing date found nothing cached and fetched nothing
C23_Witness ==
    /\ IsQuery(last.op)
    /\ ~api_key
    /\ last.need_refresh
    /\ last.adapter_calls = 1
    /\ ~IsNone(last.latest_filing_date)
    /\ IsNone(last.evaluated)

\* the balance_sheets rows of the ticker of the last query
BalanceRowsNow == SelectWhereTicker(balance, Upper(last.ticker))

\* C28: the result of get_asset_valuation is the valuation of the one cached
\* record of the ticker with the highest fiscal year, and it is present
\* whenever the ticker has a cached record
C28_LatestRecordOnly ==
    (last.op = "get_asset_valuation" /\ ~IsNone(last.market_cap) /\ ~last.raised) =>
        /\ IsNone(last.result) <=> BalanceRowsNow = {}
        /\ ~IsNone(last.result) =>
               \E r \in BalanceRowsNow :
                   /\ \A q \in BalanceRowsNow : q.fiscal_year <= r.fiscal_year
                   /\ Get(last.result).nta = r.total_assets - r.total_liabilities
                                                - r.goodwill - r.intangible_assets
                   /\ Get(last.result).ncav = r.total_current_assets - r.total_liabilities

\* a valuation was made from a series of two years whose older year has
\* another NTA
C28_Witness ==
    /\ last.op = "get_asset_valuation"
    /\ ~IsNone(last.result)
    /\ Cardinality(BalanceRowsNow) = 2
    /\ \E q \in BalanceRowsNow :
           q.total_assets - q.total_liabilities - q.goodwill - q.intangible_assets
               # Get(last.result).nta

\* C30: a query that needs no refresh issues no request to Alpha Vantage and
\* leaves the store, committed or not, and the rate cache as they were, also
\* when it evaluates a result; repeated with the same market value on the
\* store it left, it returns the same result
C30_QueriesPersistNothing ==
    [][ (IsQuery(last'.op) /\ ~last'.need_refresh) =>
            /\ income' = income /\ balance' = balance /\ constituents' = constituents
            /\ durable' = durable
            /\ ratesCache' = ratesCache
            /\ last'.http = 0 /\ last'.fx_requests = 0 /\ ~last'.commit
            /\ (SameQuery /\ ~last.need_refresh /\ ~IsNone(last.market_cap))
                   => last'.result = last.result ]_vars

\* a query without refresh evaluated a result while the rate cache was present
C30_Witness ==
    /\ IsQuery(last.op)
    /\ last.read_cache
    /\ ~last.need_refresh
    /\ ~IsNone(last.result)
    /\ ~IsNone(ratesCache)

----------------------------------------------------------------------------
(* The market value and the calculators *)

\* the primary source gave a market-cap value
PrimaryValue == last.yf.kind = "info" /\ last.yf.has_key /\ ~IsNone(last.yf.value)

\* the value the OVERVIEW answer carries: a number under "MarketCapitalization"
SecondaryValue ==
    IF /\ last.ov.kind = "json"
       /\ last.ov.MarketCapitalization.k = "str"
       /\ last.ov.MarketCapitalization.s \notin {sEmpty, sNoneWord}
       /\ CanParseFloat(last.ov.MarketCapitalization.s)
    THEN Some(ParseFloat(last.ov.MarketCapitalization.s))
    ELSE None

\* C21: get_market_cap always asks yfinance, once; it asks the OVERVIEW
\* endpoint only when yfinance raised or gave no value; a value of yfinance
\* is returned with no OVERVIEW request; the result is absent only when
\* neither source gives a value
C21_PrimaryThenSecondary ==
    last.op = "get_market_cap" =>
        /\ last.yf_requests = 1
        /\ last.ov_requests <= 1
        /\ last.ov_requests = 1 => ~PrimaryValue
        /\ PrimaryValue => last.result = last.yf.value /\ last.ov_requests = 0
        /\ (~PrimaryValue /\ last.ov_requests = 1) => last.result = SecondaryValue
        /\ IsNone(last.result) =>
               ~PrimaryValue /\ (last.ov_requests = 0 \/ IsNone(SecondaryValue))

\* yfinance raised and the OVERVIEW endpoint gave the value
C21_Witness ==
    /\ last.op = "get_market_cap"
    /\ last.yf = YfRaise
    /\ last.ov_requests = 1
    /\ last.result = Some(140)

\* the series given to calculate_7year_avg_pe and its first seven records
PeSeries == Get(last.records)

Sum7 ==
    PeSeries[1].net_income + PeSeries[2].net_income + PeSeries[3].net_income
        + PeSeries[4].net_income + PeSeries[5].net_income + PeSeries[6].net_income
        + PeSeries[7].net_income

\* each of the first seven records is one fiscal year before the one above it
SevenConsecutiveDescending ==
    \A i \in 1..6 : PeSeries[i].fiscal_year = PeSeries[i + 1].fiscal_year + 1

SomePairNotOneApart ==
    \E i \in 1..6 : Abs(PeSeries[i].fiscal_year - PeSeries[i + 1].fiscal_year) # 1

\* C25: calculate_7year_avg_pe returns absent exactly when the series has
\* fewer than 7 records, or some adjacent pair among the first 7 is not
\* exactly one fiscal year apart, or the average of the first 7 net incomes
\* is zero or negative
C25_AbsentExactlyWhen ==
    last.op = "calculate_7year_avg_pe" =>
        (IsNone(last.result) <=>
            IF Len(PeSeries) < 7 THEN TRUE ELSE SomePairNotOneApart \/ Sum7 <= 0)

\* 2022 followed by 2020 among the first seven, the incomes positive
C25_Witness ==
    /\ last.op = "calculate_7year_avg_pe"
    /\ Len(PeSeries) >= 7
    /\ PeSeries[3].fiscal_year = 2022
    /\ PeSeries[4].fiscal_year = 2020
    /\ Sum7 > 0
    /\ IsNone(last.result)

\* the record given to calculate_asset_valuation, and its two asset values
ValuedRecord == Get(last.records)

RecordNta ==
    ValuedRecord.total_assets - ValuedRecord.total_liabilities
        - ValuedRecord.goodwill - ValuedRecord.intangible_assets

RecordNcav == ValuedRecord.total_current_assets - ValuedRecord.total_liabilities

\* C26: calculate_asset_valuation always returns NTA = total assets - total
\* liabilities - goodwill - intangible assets and NCAV = total current assets
\* - total liabilities of the record given, zero and negative values
\* included, whatever the market cap
C26_NtaNcavAlwaysReturned ==
    last.op = "calculate_asset_valuation" =>
        /\ ~IsNone(last.result)
        /\ Get(last.result).nta = RecordNta
        /\ Get(last.result).ncav = RecordNcav

\* a negative NTA and a zero NCAV are returned as they are
C26_Witness ==
    /\ last.op = "calculate_asset_valuation"
    /\ RecordNta < 0
    /\ RecordNcav = 0
    /\ ValuedRecord.intangible_assets > 0
    /\ Get(last.result).nta = RecordNta
    /\ Get(last.result).ncav = 0

\* C27: P/NTA is present iff NTA > 0 and is then market cap / NTA; P/NCAV is
\* present iff NCAV > 0 and is then market cap / NCAV; neither depends on
\* the other
C27_RatiosOnlyOverPositive ==
    last.op = "calculate_asset_valuation" =>
        /\ ~IsNone(Get(last.result).p_nta) <=> RecordNta > 0
        /\ ~IsNone(Get(last.result).p_ncav) <=> RecordNcav > 0
        /\ RecordNta > 0 =>
               Get(Get(last.result).p_nta).num * RecordNta
                   = Get(last.market_cap) * Get(Get(last.result).p_nta).den
        /\ RecordNcav > 0 =>
               Get(Get(last.result).p_ncav).num * RecordNcav
                   = Get(last.market_cap) * Get(Get(last.result).p_ncav).den

\* NTA is not positive and NCAV is: P/NCAV = 200 / 160 alone is given
C27_Witness ==
    /\ last.op = "calculate_asset_valuation"
    /\ RecordNta <= 0
    /\ RecordNcav = 160
    /\ last.market_cap = Some(200)
    /\ IsNone(Get(last.result).p_nta)
    /\ Get(last.result).p_ncav = Some([num |-> 5, den |-> 4])

\* the string format_currency returned, and what follows its sign
Formatted == Get(last.result)

Unsigned == IF Formatted[1] = 45 THEN Tail(Formatted) ELSE Formatted

\* s is digits, a point and one digit, and the number it writes is the tenth
\* of the unit nearest to the amount
WritesNearestTenth(s, dollars, cents, tenth) ==
    /\ Len(s) >= 3
    /\ s[Len(s) - 1] = 46
    /\ IsDigit(s[Len(s)])
    /\ CanParseInt(SubSeq(s, 1, Len(s) - 2))
    /\ 2 * ((10 * ParseInt(SubSeq(s, 1, Len(s) - 2)) + s[Len(s)] - 48) * tenth - dollars)
           <= tenth
    /\ 2 * (dollars - (10 * ParseInt(SubSeq(s, 1, Len(s) - 2)) + s[Len(s)] - 48) * tenth)
           <= (IF cents > 0 THEN tenth - 1 ELSE tenth)

\* body is the number of units with one decimal, then the suffix
Scaled(body, suffix, dollars, cents, tenth) ==
    /\ body[Len(body)] = suffix
    /\ WritesNearestTenth(SubSeq(body, 1, Len(body) - 1), dollars, cents, tenth)

\* C29: format_currency picks the scale from the absolute amount: billions
\* with one decimal and B from 1e9, else millions and M from 1e6, else
\* thousands and K from 1e4, else whole dollars and no suffix; a negative
\* amount is the positive form after a '-' that stands before the '$'
C29_ScaleByMagnitude ==
    last.op = "format_currency" =>
        /\ Formatted[1] = 45 <=>
               last.money.negative /\ (last.money.dollars > 0 \/ last.money.cents > 0)
        /\ Formatted[1] = 45 =>
               Unsigned = format_currency([last.money EXCEPT !.negative = FALSE])
        /\ Unsigned[1] = 36
        /\ IF last.money.dollars >= 1000000000
           THEN Scaled(Tail(Unsigned), 66, last.money.dollars, last.money.cents, 100000000)
           ELSE IF last.money.dollars >= 1000000
           THEN Scaled(Tail(Unsigned), 77, last.money.dollars, last.money.cents, 100000)
           ELSE IF last.money.dollars >= 10000
           THEN Scaled(Tail(Unsigned), 75, last.money.dollars, last.money.cents, 100)
           ELSE /\ CanParseInt(Tail(Unsigned))
                /\ ParseInt(Tail(Unsigned)) = last.money.dollars

\* format_currency(-500_000_000) is "-$500.0M"
C29_Witness ==
    /\ last.op = "format_currency"
    /\ last.money = [negative |-> TRUE, dollars |-> 500000000, cents |-> 0]
    /\ last.result = Some(<<45, 36, 53, 48, 48, 46, 48, 77>>)

----------------------------------------------------------------------------
(* The constituents table *)

\* C31: insert_constituent is idempotent: however often a record is
\* inserted, the table holds one row for its ticker, index code and added
\* date, an unknown added date included
C31_InsertIdempotent ==
    \A i, j \in 1..Len(constituents) :
        (/\ constituents[i].ticker = constituents[j].ticker
         /\ constituents[i].index_code = constituents[j].index_code
         /\ constituents[i].added_date = constituents[j].added_date) => i = j

----------------------------------------------------------------------------
(* SEC filings *)

\* the company list answered and holds the ticker; its CIK
LookupFound ==
    /\ last.company_tickers.kind = "json"
    /\ \E e \in last.company_tickers.entries : e.ticker = Upper(last.ticker)

FoundCik ==
    NatStr((CHOOSE e \in last.company_tickers.entries : e.ticker = Upper(last.ticker)).cik_str)

\* the provider's list, and its entries of one form in the provider's order
ProviderList == IF last.submissions.has_filings THEN last.submissions.recent ELSE << >>

Quarterlies == SelectSeq(ProviderList, LAMBDA e : e.form = "10-Q")

Annuals == SelectSeq(ProviderList, LAMBDA e : e.form = "10-K")

\* the filing record r is the provider's entry e
FilingIs(r, e) ==
    /\ r.ticker = Upper(last.ticker)
    /\ r.form_type = e.form
    /\ r.filing_date = e.filingDate
    /\ r.filing_url[1] = FoundCik
    /\ r.filing_url[3] = e.primaryDocument
    /\ \A k \in 1..Len(r.filing_url[2]) : r.filing_url[2][k] # 45

----------------------------------------------------------------------------
(* The queries: market value, convergence, frame *)

\* C33: get_asset_valuation without a market value returns absent at once:
\* no cache read, no adapter call, no request to any provider, and the store
\* and the rate cache as they were
C33_NoMarketValueNoWork ==
    [][ (last'.op = "get_asset_valuation" /\ IsNone(last'.market_cap)) =>
            /\ IsNone(last'.result)
            /\ ~last'.read_cache /\ ~last'.need_refresh
            /\ last'.adapter_calls = 0 /\ last'.http = 0 /\ last'.fx_requests = 0
            /\ last'.yf_requests = 0 /\ last'.ov_requests = 0
            /\ ~last'.commit /\ ~last'.raised
            /\ UNCHANGED <<income, balance, constituents, durable, ratesCache>> ]_vars

\* called without a market value for a ticker with no cached rows and a
\* freshness signal, the key configured
C33_Witness ==
    /\ last.op = "get_asset_valuation"
    /\ IsNone(last.market_cap)
    /\ ~IsNone(last.latest_filing_date)
    /\ api_key
    /\ SelectWhereTicker(balance, Upper(last.ticker)) = {}
    /\ IsNone(last.result)

\* the income rows the store holds for the ticker of the last call
IncomeRowsNow == SelectWhereTicker(income, Upper(last.ticker))

\* the net incomes of the seven latest of those rows
SevenLatestTotal ==
    LET latest == {r \in IncomeRowsNow :
                      Cardinality({q \in IncomeRowsNow : q.fiscal_year > r.fiscal_year}) < 7}
        RECURSIVE Total(_)
        Total(rows) == IF rows = {} THEN 0
                       ELSE LET r == CHOOSE x \in rows : TRUE
                            IN  r.net_income + Total(rows \ {r})
    IN  Total(latest)

\* C34: in get_7year_pe a market-cap provider is asked only after the cache
\* decision, and only when the series then cached has at least 7 records and
\* the caller gave no market value; with fewer than 7 records the query is
\* absent and no provider is asked; a result with no market value given is
\* computed from the value a provider gave (200 of yfinance, 140 of
\* OVERVIEW), so without one the query is absent
C34_MarketCapAfterCacheDecision ==
    (last.op = "get_7year_pe" /\ ~last.raised) =>
        /\ last.yf_requests \in {0, 1} /\ last.ov_requests <= last.yf_requests
        /\ last.yf_requests = 1 <=>
               (IsNone(last.market_cap) /\ Cardinality(IncomeRowsNow) >= 7)
        /\ last.yf_requests = 1 => last.read_cache
        /\ Cardinality(IncomeRowsNow) < 7 => IsNone(last.result)
        /\ (IsNone(last.market_cap) /\ ~IsNone(last.result)) =>
               Get(last.result).pe.num * SevenLatestTotal
                   = 7 * (IF last.ov_requests = 1 THEN 140 ELSE 200)
                       * Get(last.result).pe.den

\* no market value given, seven records cached, yfinance without a value:
\* the OVERVIEW value gives the result
C34_Witness ==
    /\ last.op = "get_7year_pe"
    /\ ~last.raised
    /\ IsNone(last.market_cap)
    /\ Cardinality(IncomeRowsNow) >= 7
    /\ last.yf_requests = 1
    /\ last.ov_requests = 1
    /\ ~IsNone(last.result)

\* the call before this one was a query whose refresh succeeded: the adapter
\* returned records and they were saved
RefreshSucceeded ==
    /\ IsQuery(last.op)
    /\ last.need_refresh /\ ~IsNone(last.fetched) /\ last.commit /\ ~last.raised

\* C35: refresh converges: after a query whose refresh succeeded, a query for
\* the same ticker and metric kind with the same freshness signal calls no
\* provider, whatever the signal, one dated after the day of the refresh
\* included
C35_RefreshConverges ==
    [][ (/\ RefreshSucceeded
         /\ last'.op = last.op
         /\ Upper(last'.ticker) = Upper(last.ticker)
         /\ last'.latest_filing_date = last.latest_filing_date) =>
            /\ ~last'.need_refresh
            /\ last'.adapter_calls = 0 /\ last'.http = 0 /\ last'.fx_requests = 0 ]_vars

----------------------------------------------------------------------------
(* One rate table per series *)

\* C36: all records one adapter fetch of a non-USD company returns were
\* converted with the same exchange-rate table: the table is not replaced
\* between the conversion of the first and of the last record of the fetch,
\* so the series holds one rate of its currency
C36_OneRateTablePerFetch ==
    (fetching.pc = "returned" /\ ~IsNone(fetching.result)) =>
        \A i, j \in 1..Len(fetching.tables) :
            /\ fetching.tables[i] = fetching.tables[j]
            /\ DictGet(fetching.tables[i], Get(fetching.currency))
                   = DictGet(fetching.tables[j], Get(fetching.currency))

----------------------------------------------------------------------------
(* Syncs *)

\* the tickers the latest successful scrape reported as current
ReportedCurrent ==
    {Get(last.records)[i].ticker :
        i \in {k \in 1..Len(Get(last.records)) : IsNone(Get(last.records)[k].removed_date)}}

\* C37: after any sequence of syncs the current constituents of the index
\* are exactly the tickers the latest successful scrape reported as current;
\* a ticker stored as current earlier and reported as removed later is no
\* longer listed
C37_CurrentAreLatestReported ==
    (last.op = "_do_sync" /\ ~IsNone(last.records)) =>
        get_index_constituents(constituents, "sp500") = ReportedCurrent

----------------------------------------------------------------------------
(* The frame of a save *)

\* the rows of a table that are not of the ticker
RowsOfOthers(table, ticker_upper) == table \ SelectWhereTicker(table, ticker_upper)

\* a step of save_income leaves the tables in `after` as in `before` but for
\* the ticker's rows of income; the same for save_balance_sheet and balance
SaveFrame(call, before, after) ==
    /\ call.op = "save_income" =>
           /\ RowsOfOthers(after.income, Upper(call.ticker))
                  = RowsOfOthers(before.income, Upper(call.ticker))
           /\ after.balance = before.balance
           /\ after.constituents = before.constituents
    /\ call.op = "save_balance_sheet" =>
           /\ RowsOfOthers(after.balance, Upper(call.ticker))
                  = RowsOfOthers(before.balance, Upper(call.ticker))
           /\ after.income = before.income
           /\ after.constituents = before.constituents

\* C38: a save for one ticker and metric kind changes only that ticker's rows
\* in that metric's table: the rows and lastUpdated of every other ticker, of
\* the same ticker in the other metric table, and of the constituents table
\* are unchanged, in the tables the connection sees and in the committed ones
C38_SaveChangesOnlyItsRows ==
    [][ /\ SaveFrame(last', Tables, Tables')
        /\ SaveFrame(last', durable, durable') ]_vars

----------------------------------------------------------------------------
(* One record per fiscal year *)

\* C39: every non-absent sequence returned by fetch_annual_net_income or
\* fetch_balance_sheet holds at most one record per fiscal year (fiscal years
\* strictly descending), for every provider response, including one with two
\* annual entries whose fiscal dates fall in the same calendar year
C39_OneRecordPerFiscalYear ==
    (IsFetch(last) /\ ~IsNone(last.result)) =>
        \A k \in 1..(Len(Get(last.result)) - 1) :
            Get(last.result)[k].fiscal_year > Get(last.result)[k + 1].fiscal_year

====
